---- MODULE Spec2Model ----
(***************************************************************************)
(* Budget tracking application (zmcdonald6/bta2.0).                        *)
(*                                                                         *)
(* Part 1: the allocation editor of                                        *)
(*   components/classification_dashboard.py and the budget_state table of  *)
(*   utils/db.py (Add Allocation, Save All Allocations, load / save).      *)
(* Part 2: the Year-To-Date reconciliation report of                       *)
(*   components/dashboard.py.                                              *)
(* Part 3: normalize_key of utils/budget_parser.py and the expense parser  *)
(*   of utils/expense_parser.py (parseExpense, load_raw_expenses).         *)
(* Part 4: the Budget Health Summary tiles of                              *)
(*   components/classification_dashboard.py.                               *)
(* Part 5: the daily cache key of utils/expense_parser.py.                 *)
(* Part 6: the active_budget table of utils/db.py.                         *)
(* Part 7: login, first-login password reset and the page guard of         *)
(*   utils/auth.py, main.py and the pages.                                 *)
(* Part 8: the budget sheet reshaped by utils/budget_parser.py and         *)
(*   utils/budget_adapter.py.                                              *)
(*                                                                         *)
(* Money amounts are integers (minor units).  A DataFrame is a record      *)
(* [columns, rows]: the set of its column labels and the sequence of its   *)
(* rows.                                                                   *)
(***************************************************************************)
EXTENDS Integers, Sequences, FiniteSets, TLC

VARIABLES
    budget_state,         \* rows of the MySQL table budget_state
    saved_state,          \* what the latest run of a session loaded from the table
    pending_allocations,  \* st.session_state["pending_allocations_<file>"], per session
    editor_version,       \* st.session_state.editor_version, per session
    pc,                   \* position of each session's Save handler
    final_df,             \* the rows a Save in progress is about to insert
    outcome,              \* what the latest handler of a session showed / raised
    sql,                  \* write statements the latest handler step of a session issued
    df_budget,            \* the budget lines (Category, Sub-Category, Total)
    df_expense,           \* the aggregated expenses handed to the report
    report,               \* final_df_with_totals of the report; <<>> before a render
    rows_summary,         \* the eight tiles of the summary; <<>> before a render
    ledger,               \* rows of the expense CSV
    request,              \* budget_year and budget_type the parser is called with
    parsed,               \* what parseExpense returned or raised
    raw,                  \* what load_raw_expenses returned or raised
    workbook,             \* the sheet pd.read_excel gives for the budget file
    budget_long,          \* what _load_budget_from_drive returned or raised
    budget_wide,          \* what adapt_budget_long_to_classification returned
    now,                  \* datetime.now(America/Jamaica), in minutes
    cache_day_key,        \* the latest get_expense_cache_key() and its instant
    active_budget,        \* rows of the MySQL table active_budget
    active_call,          \* the latest call on active_budget and what it gave
    users,                \* rows of the MySQL table users
    session_state,        \* st.session_state of the browser session
    page                  \* what the latest script run rendered

vars == << budget_state, saved_state, pending_allocations, editor_version, pc, final_df,
           outcome, sql, df_budget, df_expense, report,
           rows_summary, ledger, request, parsed, raw,
           workbook, budget_long, budget_wide, now, cache_day_key,
           active_budget, active_call, users, session_state, page >>

\* the editor, its table and the report inputs
appVars == << budget_state, saved_state, pending_allocations, editor_version, pc,
              final_df, outcome, sql, df_budget, df_expense, report >>

\* the budget file, the clock, the active budget and the login session
sysVars == << workbook, budget_long, budget_wide, now, cache_day_key,
              active_budget, active_call, users, session_state, page >>

\* the summary tiles and the expense parser's inputs and results
viewVars == << rows_summary, ledger, request, parsed, raw >>

\* a parser entry point that has not been called
NotCalled ==
    [ called |-> FALSE, raised |-> "", filtered |-> << >>, columns |-> { }, rows |-> << >> ]

\* no expense CSV
NoLedger == [ columns |-> { }, rows |-> << >> ]

\* the state of the tiles and of the parser where they are not exercised
ViewIdle ==
    /\ rows_summary = << >>
    /\ ledger = NoLedger
    /\ request = [ budget_year |-> 2025, budget_type |-> "budget(opex)" ]
    /\ parsed = NotCalled
    /\ raw = NotCalled

\* the state of the budget file, the clock, the active budget and the login
\* session where they are not exercised
SysIdle ==
    /\ workbook = NoLedger
    /\ budget_long = NotCalled
    /\ budget_wide = << >>
    /\ now = 0
    /\ cache_day_key = << >>
    /\ active_budget = << >>
    /\ active_call = << >>
    /\ users = << >>
    /\ session_state = << >>
    /\ page = ""

(***************************************************************************)
(* Bounds of the model.                                                    *)
(***************************************************************************)
MaxPersisted == 1
MaxVersion == 1

(***************************************************************************)
(* Generic helpers.                                                        *)
(***************************************************************************)
RECURSIVE SumOver(_, _)
SumOver(rows, field) ==
    IF rows = << >> THEN 0 ELSE Head(rows)[field] + SumOver(Tail(rows), field)

Range(seq) == { seq[i] : i \in 1..Len(seq) }

(***************************************************************************)
(* Fixed data of the editor.                                               *)
(***************************************************************************)
Sessions == { "s1", "s2" }
selected_budget == "budget.xlsx"
OtherBudget == "other.xlsx"
NoneValue == "<None>"

status_options ==
    << "Wishlist", "To be confirmed", "Spent", "To be spent",
       "To be spent (Projects)", "To be spent (Recurring)",
       "Will not be spent", "Out of Budget" >>

editor_options ==
    << "Wishlist", "To be confirmed", "To be spent",
       "To be spent (Projects)", "To be spent (Recurring)",
       "Will not be spent" >>

\* the statuses the model's user picks in the "Status Category" select box
StatusInputs == { "Wishlist" }

\* the budget the editor is opened on
AllocBudget ==
    << [Category |-> "Office", SubCategory |-> "Rent", Total |-> 1],
       [Category |-> "Office", SubCategory |-> "Supplies", Total |-> 2] >>

(***************************************************************************)
(* utils/db.py: the budget_state table.                                    *)
(***************************************************************************)
\* DELETE FROM budget_state WHERE file_name = %s  (autocommit connection)
DeleteBudgetState(table, file_name) ==
    SelectSeq(table, LAMBDA r : r.file_name # file_name)

\* the columns load_budget_state_monthly returns (its list "required")
LoadedColumns == { "Category", "Sub-Category", "Month", "Amount", "Status Category" }

\* SELECT category, subcategory, month, amount, status_category ... WHERE file_name
load_budget_state_monthly(table, file_name) ==
    LET rows == SelectSeq(table, LAMBDA r : r.file_name = file_name)
    IN  [ columns |-> LoadedColumns,
          rows |-> [ i \in 1..Len(rows) |->
                       [ Category |-> rows[i].category,
                         SubCategory |-> rows[i].subcategory,
                         Month |-> rows[i].month,
                         Amount |-> rows[i].amount,
                         StatusCategory |-> rows[i].status_category ] ] ]

\* the unique key ON DUPLICATE KEY UPDATE resolves against
BudgetStateKey(r) == << r.file_name, r.category, r.subcategory, r.month >>

\* one INSERT ... ON DUPLICATE KEY UPDATE amount, status_category
UpsertBudgetState(table, row) ==
    IF \E i \in 1..Len(table) : BudgetStateKey(table[i]) = BudgetStateKey(row)
    THEN [ i \in 1..Len(table) |->
             IF BudgetStateKey(table[i]) = BudgetStateKey(row)
             THEN [ table[i] EXCEPT !.amount = row.amount,
                                    !.status_category = row.status_category ]
             ELSE table[i] ]
    ELSE Append(table, row)

\* the loop of save_budget_state_monthly over rows that carry every column it reads
RECURSIVE InsertRows(_, _, _)
InsertRows(table, file_name, rows) ==
    IF rows = << >> THEN table
    ELSE InsertRows(
           UpsertBudgetState(table,
             [ file_name |-> file_name,
               category |-> Head(rows).Category,
               subcategory |-> Head(rows).SubCategory,
               month |-> Head(rows).Month,
               amount |-> Head(rows).Amount,
               status_category |-> Head(rows).StatusCategory ]),
           file_name, Tail(rows))

\* the columns whose values the INSERT's parameter tuple reads from a row
InsertColumns == { "Category", "Sub-Category", "Month", "Amount", "Status Category" }

\* save_budget_state_monthly reading the columns final_df does have: the row's
\* "Allocated Amount" is stored as its amount and no month is read
RECURSIVE InsertAllocatedRows(_, _, _)
InsertAllocatedRows(table, file_name, rows) ==
    IF rows = << >> THEN table
    ELSE InsertAllocatedRows(
           Append(table,
             [ file_name |-> file_name,
               category |-> Head(rows).Category,
               subcategory |-> Head(rows).SubCategory,
               month |-> NoneValue,
               amount |-> Head(rows).AllocatedAmount,
               status_category |-> Head(rows).StatusCategory ]),
           file_name, Tail(rows))

save_budget_state_monthly_inserting(table, file_name, df_melted, connected) ==
    IF ~connected
    THEN [ table |-> table, raised |-> "AttributeError", writes |-> << >> ]
    ELSE [ table |-> InsertAllocatedRows(table, file_name, df_melted.rows),
           raised |-> "", writes |-> << "INSERT" >> ]

\* save_budget_state_monthly(file_name, df_melted, user_email): get_db(), then for
\* each row r the parameter tuple reads r["Category"], r["Sub-Category"],
\* r["Month"], r["Amount"], r["Status Category"]; a column df_melted does not
\* have raises KeyError while the tuple of the first row is built, before any
\* INSERT is executed.  connected = FALSE: get_db() returned None, and
\* db.cursor() raises AttributeError.
save_budget_state_monthly(table, file_name, df_melted, connected) ==
    IF ~connected
    THEN [ table |-> table, raised |-> "AttributeError", writes |-> << >> ]
    ELSE IF df_melted.rows = << >>
    THEN [ table |-> table, raised |-> "", writes |-> << >> ]
    ELSE IF ~(InsertColumns \subseteq df_melted.columns)
    THEN [ table |-> table, raised |-> "KeyError", writes |-> << >> ]
    ELSE [ table |-> InsertRows(table, file_name, df_melted.rows),
           raised |-> "", writes |-> << "INSERT" >> ]

(***************************************************************************)
(* components/classification_dashboard.py: what every run computes.        *)
(***************************************************************************)
\* base_df: Category, Sub-Category, Total Amount
base_df(budget) ==
    [ i \in 1..Len(budget) |->
        [ Category |-> budget[i].Category,
          SubCategory |-> budget[i].SubCategory,
          TotalAmount |-> budget[i].Total ] ]

\* allocations_df: the loaded rows with Allocated Amount > 0 when the loaded
\* frame has an "Allocated Amount" column, else an empty frame
allocations_df(loaded) ==
    IF loaded.rows # << >> /\ "Allocated Amount" \in loaded.columns
    THEN SelectSeq(loaded.rows, LAMBDA r : r.AllocatedAmount > 0)
    ELSE << >>

OnLine(rows, category, subcategory) ==
    SelectSeq(rows, LAMBDA r : r.Category = category /\ r.SubCategory = subcategory)

\* line_item_total: Total Amount of the selected line, 0 when there is none
line_item_total(budget, category, subcategory) ==
    LET hit == OnLine(base_df(budget), category, subcategory)
    IN  IF hit = << >> THEN 0 ELSE hit[1].TotalAmount

\* current_allocated = current_allocated_db + current_allocated_pending
current_allocated(loaded, pending, category, subcategory) ==
    SumOver(OnLine(allocations_df(loaded), category, subcategory), "AllocatedAmount")
    + SumOver(OnLine(pending, category, subcategory), "AllocatedAmount")

\* available = line_item_total - current_allocated
available(budget, loaded, pending, category, subcategory) ==
    line_item_total(budget, category, subcategory)
    - current_allocated(loaded, pending, category, subcategory)

\* st.number_input(min_value=0.0, max_value=available if available > 0 else 0.0)
number_input_max(avail) == IF avail > 0 THEN avail ELSE 0

\* the amounts the model's user types into the number input
AmountInputs == 0..3

(***************************************************************************)
(* "Add Allocation" button (one run of the script: load, then the button). *)
(***************************************************************************)
AddAllocation(s, new_category, new_subcategory, new_allocated, new_status) ==
    LET loaded == load_budget_state_monthly(budget_state, selected_budget)
        avail == available(df_budget, loaded, pending_allocations[s],
                           new_category, new_subcategory)
        total == line_item_total(df_budget, new_category, new_subcategory)
    IN  /\ pc[s] = "idle"
        /\ saved_state' = [ saved_state EXCEPT ![s] = loaded ]
        /\ \E i \in 1..Len(df_budget) :
              /\ df_budget[i].Category = new_category
              /\ df_budget[i].SubCategory = new_subcategory
        /\ IF new_allocated > number_input_max(avail)
           THEN \* the widget does not accept a value above max_value
                /\ pending_allocations' = pending_allocations
                /\ outcome' = [ outcome EXCEPT ![s] = "above_max" ]
           ELSE IF new_allocated > 0 /\ new_status # ""
           THEN /\ pending_allocations' =
                      [ pending_allocations EXCEPT ![s] =
                          Append(@, [ Category |-> new_category,
                                      SubCategory |-> new_subcategory,
                                      TotalAmount |-> total,
                                      AllocatedAmount |-> new_allocated,
                                      StatusCategory |-> new_status ]) ]
                /\ outcome' = [ outcome EXCEPT ![s] = "added" ]
           ELSE /\ pending_allocations' = pending_allocations
                /\ outcome' = [ outcome EXCEPT ![s] = "warning_invalid_amount" ]
        /\ sql' = [ sql EXCEPT ![s] = << >> ]
        /\ UNCHANGED << budget_state, editor_version, pc, final_df,
                        df_budget, df_expense, report, viewVars, sysVars >>


(***************************************************************************)
(* The allocations editor (st.data_editor) and "Save All Allocations".     *)
(***************************************************************************)
\* a cell of the editor's "Allocated Amount" column: a number, an empty cell
\* (None / NaN) or text that is no number
NumCell(v) == [ kind |-> "num", val |-> v ]
NullCell == [ kind |-> "null", val |-> 0 ]
TextCell == [ kind |-> "text", val |-> 0 ]

\* what the user does to one row of the editor
EditOps ==
    { [ op |-> "keep", amount |-> NullCell, status |-> "" ],
      [ op |-> "remove", amount |-> NullCell, status |-> "" ],
      [ op |-> "status", amount |-> NullCell, status |-> "" ],
      [ op |-> "status", amount |-> NullCell, status |-> NoneValue ] }
    \cup { [ op |-> "amount", amount |-> c, status |-> "" ] :
             c \in { NullCell, TextCell, NumCell(0), NumCell(2) } }

\* the editor left untouched: no edit on any of its n rows
KeepAll(n) == [ i \in 1..n |-> [ op |-> "keep", amount |-> NullCell, status |-> "" ] ]

\* allocations_display: allocations_df joined with the line totals, then the
\* pending allocations, then the "Filter by Status Category" select box
allocations_display(budget, loaded, pending, status_filter) ==
    LET alloc == allocations_df(loaded)
        persisted == [ i \in 1..Len(alloc) |->
                         [ Category |-> alloc[i].Category,
                           SubCategory |-> alloc[i].SubCategory,
                           TotalAmount |-> line_item_total(budget, alloc[i].Category,
                                                           alloc[i].SubCategory),
                           AllocatedAmount |-> alloc[i].AllocatedAmount,
                           StatusCategory |-> alloc[i].StatusCategory ] ]
        all == persisted \o pending
    IN  IF status_filter = "All" THEN all
        ELSE SelectSeq(all, LAMBDA r : r.StatusCategory = status_filter)

\* the options of the status filter: "All" and the statuses on display
status_filter_options(budget, loaded, pending) ==
    { "All" } \cup
    { r.StatusCategory : r \in Range(allocations_display(budget, loaded, pending, "All")) }

\* edited_allocations: the editor's return value for the edits ops (one per row)
RECURSIVE edited_allocations(_, _)
edited_allocations(display, ops) ==
    IF display = << >> THEN << >>
    ELSE LET r == Head(display)
             o == Head(ops)
             row == [ Category |-> r.Category,
                      SubCategory |-> r.SubCategory,
                      TotalAmount |-> r.TotalAmount,
                      AllocatedAmount |->
                          IF o.op = "amount" THEN o.amount ELSE NumCell(r.AllocatedAmount),
                      StatusCategory |->
                          IF o.op = "status" THEN o.status ELSE r.StatusCategory ]
             rest == edited_allocations(Tail(display), Tail(ops))
         IN  IF o.op = "remove" THEN rest ELSE << row >> \o rest

\* pd.to_numeric(cell, errors='coerce') > 0, and cell.notna()
AmountIsValid(cell) == cell.kind = "num" /\ cell.val > 0

\* valid_allocations: Status Category not null and not "", Allocated Amount
\* not null and numerically > 0
valid_allocations(edited) ==
    SelectSeq(edited, LAMBDA r : /\ r.StatusCategory # NoneValue
                                 /\ r.StatusCategory # ""
                                 /\ AmountIsValid(r.AllocatedAmount))

\* the columns selected into final_df
FinalColumns ==
    { "Category", "Sub-Category", "Amount", "Allocated Amount", "Status Category" }

\* final_df: valid_allocations left-merged with the budget's Total, renamed Amount
FinalDf(budget, valid) ==
    [ columns |-> FinalColumns,
      rows |-> [ i \in 1..Len(valid) |->
                   [ Category |-> valid[i].Category,
                     SubCategory |-> valid[i].SubCategory,
                     Amount |-> line_item_total(budget, valid[i].Category,
                                                valid[i].SubCategory),
                     AllocatedAmount |-> valid[i].AllocatedAmount.val,
                     StatusCategory |-> valid[i].StatusCategory ] ] ]

NoFrame == [ columns |-> FinalColumns, rows |-> << >> ]

\* the button up to and including the DELETE (or the point where it stops);
\* connected = FALSE: get_db() returned None and db.cursor() raises
SaveBegin(s, status_filter, ops, connected) ==
    LET loaded == load_budget_state_monthly(budget_state, selected_budget)
        display == allocations_display(df_budget, loaded,
                                       pending_allocations[s], status_filter)
        edited == edited_allocations(display, ops)
        valid == valid_allocations(edited)
    IN  /\ pc[s] = "idle"
        /\ saved_state' = [ saved_state EXCEPT ![s] = loaded ]
        /\ status_filter \in status_filter_options(df_budget, loaded,
                                                   pending_allocations[s])
        /\ Len(ops) = Len(display)
        /\ IF edited = << >>
           THEN IF connected
                THEN /\ editor_version[s] < MaxVersion
                     /\ budget_state' = DeleteBudgetState(budget_state, selected_budget)
                     /\ pending_allocations' = [ pending_allocations EXCEPT ![s] = << >> ]
                     /\ editor_version' = [ editor_version EXCEPT ![s] = @ + 1 ]
                     /\ outcome' = [ outcome EXCEPT ![s] = "cleared" ]
                     /\ sql' = [ sql EXCEPT ![s] = << "DELETE" >> ]
                     /\ UNCHANGED << pc, final_df >>
                ELSE /\ outcome' = [ outcome EXCEPT ![s] = "AttributeError" ]
                     /\ sql' = [ sql EXCEPT ![s] = << >> ]
                     /\ UNCHANGED << budget_state, pending_allocations,
                                     editor_version, pc, final_df >>
           ELSE IF valid = << >>
           THEN /\ outcome' = [ outcome EXCEPT ![s] = "warning_no_valid" ]
                /\ sql' = [ sql EXCEPT ![s] = << >> ]
                /\ UNCHANGED << budget_state, pending_allocations,
                                editor_version, pc, final_df >>
           ELSE IF connected
           THEN /\ budget_state' = DeleteBudgetState(budget_state, selected_budget)
                /\ final_df' = [ final_df EXCEPT ![s] = FinalDf(df_budget, valid) ]
                /\ pc' = [ pc EXCEPT ![s] = "deleted" ]
                /\ outcome' = [ outcome EXCEPT ![s] = "saving" ]
                /\ sql' = [ sql EXCEPT ![s] = << "DELETE" >> ]
                /\ UNCHANGED << pending_allocations, editor_version >>
           ELSE /\ outcome' = [ outcome EXCEPT ![s] = "AttributeError" ]
                /\ sql' = [ sql EXCEPT ![s] = << >> ]
                /\ UNCHANGED << budget_state, pending_allocations,
                                editor_version, pc, final_df >>
        /\ UNCHANGED << df_budget, df_expense, report, viewVars, sysVars >>

\* the rest of the button: save_budget_state_monthly, then the clean-up that
\* only a call that returns reaches
SaveInsert(s, connected) ==
    LET res == save_budget_state_monthly(budget_state, selected_budget,
                                         final_df[s], connected)
    IN  /\ pc[s] = "deleted"
        /\ budget_state' = res.table
        /\ pc' = [ pc EXCEPT ![s] = "idle" ]
        /\ sql' = [ sql EXCEPT ![s] = @ \o res.writes ]
        /\ IF res.raised = ""
           THEN /\ editor_version[s] < MaxVersion
                /\ pending_allocations' = [ pending_allocations EXCEPT ![s] = << >> ]
                /\ editor_version' = [ editor_version EXCEPT ![s] = @ + 1 ]
                /\ outcome' = [ outcome EXCEPT ![s] = "saved" ]
           ELSE /\ outcome' = [ outcome EXCEPT ![s] = res.raised ]
                /\ UNCHANGED << pending_allocations, editor_version >>
        /\ final_df' = [ final_df EXCEPT ![s] = NoFrame ]
        /\ UNCHANGED << saved_state, df_budget, df_expense, report, viewVars, sysVars >>

(***************************************************************************)
(* The states the application starts in.                                   *)
(***************************************************************************)
\* rows another budget file has in the table
OtherRows ==
    << [ file_name |-> OtherBudget, category |-> "Office", subcategory |-> "Rent",
         month |-> "January", amount |-> 1, status_category |-> "Wishlist" ] >>

\* the rows the table may hold for the selected budget
PersistedRow ==
    { [ file_name |-> selected_budget, category |-> AllocBudget[i].Category,
        subcategory |-> AllocBudget[i].SubCategory, month |-> "January",
        amount |-> a, status_category |-> st ] :
        i \in 1..Len(AllocBudget), a \in 1..2, st \in StatusInputs }

\* Sum of the persisted amounts of one budget line of one file
PersistedAllocated(table, file_name, category, subcategory) ==
    SumOver(SelectSeq(table, LAMBDA r : /\ r.file_name = file_name
                                        /\ r.category = category
                                        /\ r.subcategory = subcategory),
            "amount")

WithinTotals(table, budget, file_name) ==
    \A i \in 1..Len(budget) :
        PersistedAllocated(table, file_name, budget[i].Category, budget[i].SubCategory)
            <= budget[i].Total

InitialTables ==
    { OtherRows \o t : t \in { u \in UNION { [1..n -> PersistedRow] : n \in 0..MaxPersisted } :
                                 WithinTotals(u, AllocBudget, selected_budget) } }

Init ==
    /\ budget_state \in InitialTables
    /\ saved_state =
          [ s \in Sessions |-> load_budget_state_monthly(budget_state, selected_budget) ]
    /\ pending_allocations = [ s \in Sessions |-> << >> ]
    /\ editor_version = [ s \in Sessions |-> 0 ]
    /\ pc = [ s \in Sessions |-> "idle" ]
    /\ final_df = [ s \in Sessions |-> NoFrame ]
    /\ outcome = [ s \in Sessions |-> "" ]
    /\ sql = [ s \in Sessions |-> << >> ]
    /\ df_budget = AllocBudget
    /\ df_expense = << >>
    /\ report = << >>
    /\ ViewIdle
    /\ SysIdle

\* one user session working in the editor
Next ==
    \/ \E i \in 1..Len(df_budget), a \in AmountInputs, st \in StatusInputs :
          AddAllocation("s1", df_budget[i].Category, df_budget[i].SubCategory, a, st)
    \/ \E ops \in [1..Len(pending_allocations["s1"]) -> EditOps] :
          SaveBegin("s1", "All", ops, TRUE)
    \/ \E f \in StatusInputs, n \in 0..Len(pending_allocations["s1"]) :
          SaveBegin("s1", f, KeepAll(n), TRUE)
    \/ \E n \in 0..Len(pending_allocations["s1"]) :
          SaveBegin("s1", "All", KeepAll(n), FALSE)
    \/ \E c \in BOOLEAN : SaveInsert("s1", c)

Spec == Init /\ [][Next]_vars

\* two user sessions on the same budget file, each saving what it added
NextConc ==
    \/ \E s \in Sessions, i \in 1..Len(df_budget), a \in AmountInputs, st \in StatusInputs :
          AddAllocation(s, df_budget[i].Category, df_budget[i].SubCategory, a, st)
    \/ \E s \in Sessions :
          SaveBegin(s, "All", KeepAll(Len(pending_allocations[s])), TRUE)
    \/ \E s \in Sessions, c \in BOOLEAN : SaveInsert(s, c)

SpecConc == Init /\ [][NextConc]_vars

(***************************************************************************)
(* Properties of the allocation editor.                                    *)
(***************************************************************************)
\* the persisted entries of a file, as (category, sub-category, status) in table order
Entries(table, file_name) ==
    LET rows == SelectSeq(table, LAMBDA r : r.file_name = file_name)
    IN  [ i \in 1..Len(rows) |->
            << rows[i].category, rows[i].subcategory, rows[i].status_category >> ]

\* the same view of a frame of allocation rows
FrameEntries(rows) ==
    [ i \in 1..Len(rows) |->
        << rows[i].Category, rows[i].SubCategory, rows[i].StatusCategory >> ]

\* some budget line has rows whose Allocated Amount sums to more than its total
OverAllocated(budget, rows) ==
    \E i \in 1..Len(budget) :
        SumOver(OnLine(rows, budget[i].Category, budget[i].SubCategory), "AllocatedAmount")
            > budget[i].Total

\* persisted plus pending allocations of every line stay within the line's total
AllocatedWithinTotals ==
    \A s \in Sessions, i \in 1..Len(df_budget) :
        PersistedAllocated(budget_state, selected_budget,
                           df_budget[i].Category, df_budget[i].SubCategory)
        + SumOver(OnLine(pending_allocations[s], df_budget[i].Category,
                         df_budget[i].SubCategory), "AllocatedAmount")
            <= df_budget[i].Total

\* C1: persisted plus pending allocations of a line never exceed the line's
\* total, and an Add Allocation of more than (total - already allocated) leaves
\* the pending list unchanged.
C1_AddKeepsWithinTotal ==
    [][ /\ AllocatedWithinTotals'
        /\ \A s \in Sessions, i \in 1..Len(df_budget), a \in AmountInputs, st \in StatusInputs :
              ( /\ AddAllocation(s, df_budget[i].Category, df_budget[i].SubCategory, a, st)
                /\ a > df_budget[i].Total
                       - PersistedAllocated(budget_state, selected_budget,
                             df_budget[i].Category, df_budget[i].SubCategory)
                       - SumOver(OnLine(pending_allocations[s], df_budget[i].Category,
                             df_budget[i].SubCategory), "AllocatedAmount") )
              => pending_allocations' = pending_allocations ]_vars

\* the valid rows of what session s submits with the edits ops
SubmittedValid(s, ops) ==
    FinalDf(df_budget,
            valid_allocations(edited_allocations(
                allocations_display(df_budget,
                    load_budget_state_monthly(budget_state, selected_budget),
                    pending_allocations[s], "All"), ops))).rows

\* C2: a Save All Allocations whose edited set over-allocates some line is
\* rejected before any persistence call: no DELETE, no INSERT, the persisted
\* entries are what they were.
C2_OverAllocatedSaveRejected ==
    [][ \A s \in Sessions :
          \A ops \in [1..Len(pending_allocations[s]) -> EditOps] :
             ( /\ SaveBegin(s, "All", ops, TRUE)
               /\ OverAllocated(df_budget, SubmittedValid(s, ops)) )
             => /\ sql'[s] = << >>
                /\ pc'[s] = "idle"
                /\ budget_state' = budget_state ]_vars

C4_SaveReplacesAll ==
    [][ \A s \in Sessions :
          SaveInsert(s, TRUE)
          => Entries(budget_state', selected_budget) = FrameEntries(final_df[s].rows) ]_vars

\* C5: a save that is aborted or fails at any step leaves the file's persisted
\* entries either as they were before the save or as the complete new set.
C5_SaveAllOrNothing ==
    [][ \A s \in Sessions :
          /\ ( pc[s] = "idle" /\ pc'[s] = "deleted" )
             => \/ Entries(budget_state', selected_budget)
                     = Entries(budget_state, selected_budget)
                \/ Entries(budget_state', selected_budget)
                     = FrameEntries(final_df'[s].rows)
          /\ ( pc[s] = "deleted" /\ pc'[s] = "idle" /\ outcome'[s] # "saved" )
             => \/ Entries(budget_state', selected_budget)
                     = FrameEntries(saved_state[s].rows)
                \/ Entries(budget_state', selected_budget)
                     = FrameEntries(final_df[s].rows) ]_vars

\* C6: when the later of two sessions' saves of the same file finishes, the
\* persisted entries are exactly that session's validated rows (the last
\* writer's), not a mixture of both sessions' rows.
C6_LastWriterWins ==
    [][ \A s \in Sessions :
          ( /\ SaveInsert(s, TRUE)
            /\ \A t \in Sessions \ { s } :
                  pc[t] = "idle" /\ outcome[t] \in { "saved", "KeyError" } )
          => Entries(budget_state', selected_budget) = FrameEntries(final_df[s].rows) ]_vars

\* a row the save has to leave out: no status, or an amount that is missing,
\* not a number or not positive
RowIsInvalid(r) ==
    \/ r.StatusCategory \in { "", NoneValue }
    \/ r.AllocatedAmount.kind # "num"
    \/ r.AllocatedAmount.val <= 0

\* C7: a save leaves out exactly the invalid rows and persists the others;
\* when no row is left it is refused with the "no valid allocations" warning
\* and the persisted entries stay as they were.
C7_InvalidRowsFiltered ==
    [][ \A s \in Sessions :
          /\ \A ops \in [1..Len(pending_allocations[s]) -> EditOps] :
                SaveBegin(s, "All", ops, TRUE)
                => LET edited == edited_allocations(pending_allocations[s], ops)
                       good == SelectSeq(edited, LAMBDA r : ~RowIsInvalid(r))
                   IN  /\ ( edited # << >> /\ good = << >> )
                            => /\ outcome'[s] = "warning_no_valid"
                               /\ budget_state' = budget_state
                       /\ good # << >>
                            => FrameEntries(final_df'[s].rows) = FrameEntries(good)
          /\ SaveInsert(s, TRUE)
             => Entries(budget_state', selected_budget) = FrameEntries(final_df[s].rows) ]_vars

(***************************************************************************)
(* components/dashboard.py: the Year-To-Date budget report.                *)
(***************************************************************************)
MaxLines == 2
MaxExpenses == 3
MaxBudget == 10

\* the names of the model, in Python's string order
StrOrder == << "Admin", "Facilities", "OOB", "Rent", "Supplies", "TOTAL", "admin" >>
Rank(name) == CHOOSE i \in 1..Len(StrOrder) : StrOrder[i] = name
StrLess(a, b) == Rank(a) < Rank(b)

\* (Category, Sub-Category) before (Category, Sub-Category): the order of a groupby
PairLess(c1, s1, c2, s2) == StrLess(c1, c2) \/ (c1 = c2 /\ StrLess(s1, s2))

\* budget_base: Category, Sub-Category, Amount Budgeted
budget_base(budget) ==
    [ i \in 1..Len(budget) |->
        [ Category |-> budget[i].Category,
          SubCategory |-> budget[i].SubCategory,
          AmountBudgeted |-> budget[i].Total ] ]

\* budget_keys = set(zip(Category, Sub-Category))
budget_keys(budget) ==
    { << budget[i].Category, budget[i].SubCategory >> : i \in 1..Len(budget) }

\* one group of the groupby put in its place among the groups before it
RECURSIVE InsertGroup(_, _)
InsertGroup(groups, g) ==
    IF groups = << >> THEN << g >>
    ELSE IF PairLess(g.Category, g.SubCategory,
                     Head(groups).Category, Head(groups).SubCategory)
         THEN << g >> \o groups
         ELSE << Head(groups) >> \o InsertGroup(Tail(groups), g)

\* expense_agg: groupby(category_display, subcategory_display).sum(), renamed
RECURSIVE expense_agg(_)
expense_agg(expense) ==
    IF expense = << >> THEN << >>
    ELSE LET e == expense[Len(expense)]
             before == expense_agg(SubSeq(expense, 1, Len(expense) - 1))
         IN  IF \E i \in 1..Len(before) :
                    /\ before[i].Category = e.category_display
                    /\ before[i].SubCategory = e.subcategory_display
             THEN [ i \in 1..Len(before) |->
                      IF /\ before[i].Category = e.category_display
                         /\ before[i].SubCategory = e.subcategory_display
                      THEN [ before[i] EXCEPT !.AmountSpent = @ + e.amount_spent ]
                      ELSE before[i] ]
             ELSE InsertGroup(before, [ Category |-> e.category_display,
                                        SubCategory |-> e.subcategory_display,
                                        AmountSpent |-> e.amount_spent ])

\* is_oob: the row's (Category, Sub-Category) is not in budget_keys
is_oob(budget, r) == << r.Category, r.SubCategory >> \notin budget_keys(budget)

in_budget_expenses(budget, expense) ==
    SelectSeq(expense_agg(expense), LAMBDA r : ~is_oob(budget, r))

\* a split that lists every aggregated expense among the OOB expenses
oob_expenses_all(budget, expense) == expense_agg(expense)

oob_expenses(budget, expense) ==
    SelectSeq(expense_agg(expense), LAMBDA r : is_oob(budget, r))

\* the rows a left merge gives one budget line: one per matching expense row,
\* or one with Amount Spent filled with 0
MergeLine(b, in_budget) ==
    LET hits == OnLine(in_budget, b.Category, b.SubCategory)
    IN  IF hits = << >>
        THEN << [ Category |-> b.Category, SubCategory |-> b.SubCategory,
                  AmountBudgeted |-> b.AmountBudgeted, AmountSpent |-> 0,
                  Variance |-> b.AmountBudgeted - 0 ] >>
        ELSE [ i \in 1..Len(hits) |->
                 [ Category |-> b.Category, SubCategory |-> b.SubCategory,
                   AmountBudgeted |-> b.AmountBudgeted,
                   AmountSpent |-> hits[i].AmountSpent,
                   Variance |-> b.AmountBudgeted - hits[i].AmountSpent ] ]

\* merged: budget_base left-merged with the in-budget expenses, with Variance
RECURSIVE merged(_, _)
merged(base, in_budget) ==
    IF base = << >> THEN << >>
    ELSE MergeLine(Head(base), in_budget) \o merged(Tail(base), in_budget)

\* OOB rows left under the category the ledger gives them
oob_rows_keep_category(oob) ==
    [ i \in 1..Len(oob) |->
        [ Category |-> oob[i].Category, SubCategory |-> oob[i].SubCategory,
          AmountBudgeted |-> 0, AmountSpent |-> oob[i].AmountSpent,
          Variance |-> 0 - oob[i].AmountSpent ] ]

\* OOB rows whose Variance keeps the sign of the spending
oob_rows_positive_variance(oob) ==
    [ i \in 1..Len(oob) |->
        [ Category |-> "OOB", SubCategory |-> oob[i].SubCategory,
          AmountBudgeted |-> 0, AmountSpent |-> oob[i].AmountSpent,
          Variance |-> oob[i].AmountSpent ] ]

\* oob_rows: Amount Budgeted 0, Variance -Amount Spent, Category "OOB"
oob_rows(oob) ==
    [ i \in 1..Len(oob) |->
        [ Category |-> "OOB", SubCategory |-> oob[i].SubCategory,
          AmountBudgeted |-> 0, AmountSpent |-> oob[i].AmountSpent,
          Variance |-> 0 - oob[i].AmountSpent ] ]

\* usage = spent / budget compared with the threshold num / den (budget # 0)
UsageAtMost(spent, budget, num, den) ==
    IF budget > 0 THEN spent * den <= num * budget
    ELSE spent * den >= num * budget

\* a status rule whose upper threshold excludes usage = 1.0
get_status_strict(row) ==
    IF row.Category = "OOB" THEN "Out of Budget"
    ELSE IF row.AmountBudgeted = 0
    THEN IF row.AmountSpent > 0 THEN "Overspent" ELSE "Within Budget"
    ELSE IF UsageAtMost(row.AmountSpent, row.AmountBudgeted, 7, 10)
    THEN "Within Budget"
    ELSE IF row.AmountSpent < row.AmountBudgeted
    THEN "Warning - Approaching Limit"
    ELSE "Overspent"

\* get_status(row)
get_status(row) ==
    IF row.Category = "OOB" THEN "Out of Budget"
    ELSE IF row.AmountBudgeted = 0
    THEN IF row.AmountSpent > 0 THEN "Overspent" ELSE "Within Budget"
    ELSE IF UsageAtMost(row.AmountSpent, row.AmountBudgeted, 7, 10)
    THEN "Within Budget"
    ELSE IF UsageAtMost(row.AmountSpent, row.AmountBudgeted, 10, 10)
    THEN "Warning - Approaching Limit"
    ELSE "Overspent"

WithStatus(rows) ==
    [ i \in 1..Len(rows) |->
        [ Category |-> rows[i].Category, SubCategory |-> rows[i].SubCategory,
          AmountBudgeted |-> rows[i].AmountBudgeted,
          AmountSpent |-> rows[i].AmountSpent,
          Variance |-> rows[i].Variance,
          Status |-> get_status(rows[i]) ] ]

\* final_df of the report: merged rows, then the OOB rows, each with its Status
report_final_df(budget, expense) ==
    WithStatus(merged(budget_base(budget), in_budget_expenses(budget, expense))
               \o oob_rows(oob_expenses(budget, expense)))

\* sorted(final_df["Category"].unique())
RECURSIVE InsertName(_, _)
InsertName(names, n) ==
    IF names = << >> THEN << n >>
    ELSE IF n = Head(names) THEN names
    ELSE IF StrLess(n, Head(names)) THEN << n >> \o names
    ELSE << Head(names) >> \o InsertName(Tail(names), n)

RECURSIVE categories(_)
categories(rows) ==
    IF rows = << >> THEN << >>
    ELSE InsertName(categories(Tail(rows)), Head(rows).Category)

\* a rollup that takes the spending of the category's first row only
category_total_first_row(rows, category) ==
    LET mine == SelectSeq(rows, LAMBDA r : r.Category = category)
    IN  [ Category |-> category, SubCategory |-> "TOTAL",
          AmountBudgeted |-> SumOver(mine, "AmountBudgeted"),
          AmountSpent |-> Head(mine).AmountSpent,
          Variance |-> SumOver(mine, "AmountBudgeted") - Head(mine).AmountSpent,
          Status |-> "Within Budget" ]

\* category_totals: groupby("Category") sums of Amount Budgeted, Amount Spent
\* and Variance, Sub-Category "TOTAL", Status from get_status on the sums
category_total(rows, category) ==
    LET mine == SelectSeq(rows, LAMBDA r : r.Category = category)
        sums == [ Category |-> category, SubCategory |-> "TOTAL",
                  AmountBudgeted |-> SumOver(mine, "AmountBudgeted"),
                  AmountSpent |-> SumOver(mine, "AmountSpent"),
                  Variance |-> SumOver(mine, "Variance") ]
    IN  [ Category |-> category, SubCategory |-> "TOTAL",
          AmountBudgeted |-> sums.AmountBudgeted,
          AmountSpent |-> sums.AmountSpent,
          Variance |-> sums.Variance,
          Status |-> get_status(sums) ]

\* cat_rows.sort_values("Sub-Category")
RECURSIVE InsertBySub(_, _)
InsertBySub(sorted, r) ==
    IF sorted = << >> THEN << r >>
    ELSE IF StrLess(r.SubCategory, Head(sorted).SubCategory)
         THEN << r >> \o sorted
         ELSE << Head(sorted) >> \o InsertBySub(Tail(sorted), r)

\* a category's rows left in the order final_df has them
SortBySub_as_given(rows) == rows

RECURSIVE SortBySub(_)
SortBySub(rows) ==
    IF rows = << >> THEN << >>
    ELSE InsertBySub(SortBySub(SubSeq(rows, 1, Len(rows) - 1)), rows[Len(rows)])

\* result_rows: per category in sorted order, its total row, then its rows
RECURSIVE result_rows(_, _)
result_rows(rows, cats) ==
    IF cats = << >> THEN << >>
    ELSE << category_total(rows, Head(cats)) >>
         \o SortBySub(SelectSeq(rows, LAMBDA r : r.Category = Head(cats)))
         \o result_rows(rows, Tail(cats))

\* final_df_with_totals
final_df_with_totals(budget, expense) ==
    LET rows == report_final_df(budget, expense)
    IN  result_rows(rows, categories(rows))

(***************************************************************************)
(* components/classification_dashboard.py: the Budget Health Summary.      *)
(***************************************************************************)
\* saved_state.groupby("Status Category")[amount_col].sum() for one status;
\* rows with a NULL status are in no group
GroupTotal(loaded, status) ==
    LET amount_col == IF "Allocated Amount" \in loaded.columns
                      THEN "AllocatedAmount" ELSE "Amount"
    IN  SumOver(SelectSeq(loaded.rows, LAMBDA r : r.StatusCategory = status), amount_col)

\* rows_summary before the overrides: the groups reindexed on status_options
grouped_summary(loaded) ==
    [ i \in 1..Len(status_options) |->
        [ StatusCategory |-> status_options[i],
          Total |-> IF loaded.rows = << >> THEN 0
                    ELSE GroupTotal(loaded, status_options[i]) ] ]

\* spent_usd = df_expense["amount_spent"].sum()
spent_usd(expense) == SumOver(expense, "amount_spent")

\* valid_budget_keys = set(zip(df_budget["Category"], df_budget["Sub-Category"]))
valid_budget_keys(budget) ==
    { << budget[i].Category, budget[i].SubCategory >> : i \in 1..Len(budget) }

\* out_of_budget_total: the expenses whose key is not in valid_budget_keys
out_of_budget_total(budget, expense) ==
    SumOver(SelectSeq(expense,
                      LAMBDA e : << e.category_display, e.subcategory_display >>
                                    \notin valid_budget_keys(budget)),
            "amount_spent")

\* a summary without the override of the Spent tile
summary_tiles_no_spent_override(loaded, budget, expense) ==
    [ i \in 1..Len(status_options) |->
        [ StatusCategory |-> status_options[i],
          Total |-> IF status_options[i] = "Out of Budget"
                    THEN out_of_budget_total(budget, expense)
                    ELSE grouped_summary(loaded)[i].Total ] ]

\* a summary that lists the statuses the persisted entries have
summary_tiles_of_groups(loaded, budget, expense) ==
    SelectSeq(grouped_summary(loaded),
              LAMBDA t : \E k \in 1..Len(loaded.rows) :
                            loaded.rows[k].StatusCategory = t.StatusCategory)

\* rows_summary with the Spent and Out of Budget tiles overridden
summary_tiles(loaded, budget, expense) ==
    [ i \in 1..Len(status_options) |->
        [ StatusCategory |-> status_options[i],
          Total |-> IF status_options[i] = "Spent" THEN spent_usd(expense)
                    ELSE IF status_options[i] = "Out of Budget"
                    THEN out_of_budget_total(budget, expense)
                    ELSE grouped_summary(loaded)[i].Total ] ]

(***************************************************************************)
(* The report rendered for a budget and an aggregated expense frame.       *)
(***************************************************************************)
Absent == 0 - 1

\* the lines a budget may have, in the order the adapter's pivot leaves them
LineUniverse ==
    << << "Admin", "Rent" >>, << "Admin", "Supplies" >>,
       << "OOB", "Rent" >>, << "OOB", "Supplies" >> >>

\* the (category_display, subcategory_display) pairs an expense frame may have
\* in the order parseExpense's groupby leaves them (keys first, then display)
ExpenseUniverse ==
    << << "Admin", "Rent" >>, << "admin", "Rent" >>, << "Admin", "Supplies" >>,
       << "Facilities", "Rent" >>, << "OOB", "Rent" >> >>

BudgetAmounts == { 0, MaxBudget }
SpentAmounts == { 7, 8, MaxBudget, MaxBudget + 1 }

Present(f) == { i \in DOMAIN f : f[i] # Absent }

RECURSIVE BudgetFrom(_, _)
BudgetFrom(f, i) ==
    IF i > Len(LineUniverse) THEN << >>
    ELSE ( IF f[i] = Absent THEN << >>
           ELSE << [ Category |-> LineUniverse[i][1],
                     SubCategory |-> LineUniverse[i][2],
                     Total |-> f[i] ] >> )
         \o BudgetFrom(f, i + 1)

RECURSIVE ExpenseFrom(_, _)
ExpenseFrom(f, i) ==
    IF i > Len(ExpenseUniverse) THEN << >>
    ELSE ( IF f[i] = Absent THEN << >>
           ELSE << [ category_display |-> ExpenseUniverse[i][1],
                     subcategory_display |-> ExpenseUniverse[i][2],
                     amount_spent |-> f[i] ] >> )
         \o ExpenseFrom(f, i + 1)

BudgetInputs ==
    { BudgetFrom(f, 1) :
        f \in { g \in [1..Len(LineUniverse) -> BudgetAmounts \cup { Absent }] :
                  Cardinality(Present(g)) \in 1..MaxLines } }

ExpenseInputs ==
    { ExpenseFrom(f, 1) :
        f \in { g \in [1..Len(ExpenseUniverse) -> SpentAmounts \cup { Absent }] :
                  Cardinality(Present(g)) <= MaxExpenses } }

InitRecon ==
    /\ budget_state = OtherRows
    /\ saved_state =
          [ s \in Sessions |-> load_budget_state_monthly(budget_state, selected_budget) ]
    /\ pending_allocations = [ s \in Sessions |-> << >> ]
    /\ editor_version = [ s \in Sessions |-> 0 ]
    /\ pc = [ s \in Sessions |-> "idle" ]
    /\ final_df = [ s \in Sessions |-> NoFrame ]
    /\ outcome = [ s \in Sessions |-> "" ]
    /\ sql = [ s \in Sessions |-> << >> ]
    /\ df_budget \in BudgetInputs
    /\ df_expense \in ExpenseInputs
    /\ report = << >>
    /\ ViewIdle
    /\ SysIdle

\* render_report_dashboard: the summary tiles of the classification part, then
\* the report table
RenderReport ==
    /\ report = << >>
    /\ LET loaded == load_budget_state_monthly(budget_state, selected_budget)
       IN  /\ saved_state' = [ saved_state EXCEPT !["s1"] = loaded ]
           /\ rows_summary' = summary_tiles(loaded, df_budget, df_expense)
    /\ report' = final_df_with_totals(df_budget, df_expense)
    /\ UNCHANGED << budget_state, pending_allocations, editor_version,
                    pc, final_df, outcome, sql, df_budget, df_expense,
                    ledger, request, parsed, raw, sysVars >>

NextRecon == RenderReport

SpecRecon == InitRecon /\ [][NextRecon]_vars

(***************************************************************************)
(* Properties of the Year-To-Date report.                                  *)
(***************************************************************************)
ReportRows == { i \in 1..Len(report) : TRUE }
IsRollup(r) == r.SubCategory = "TOTAL"
Children(category) ==
    SelectSeq(report, LAMBDA r : r.Category = category /\ ~IsRollup(r))
Rollups(category) ==
    { i \in ReportRows : report[i].Category = category /\ IsRollup(report[i]) }

\* C8: every row of the report (budget line, out-of-budget row, category
\* TOTAL row) has Variance = Amount Budgeted - Amount Spent.
C8_VarianceIsBudgetedMinusSpent ==
    \A i \in ReportRows :
        report[i].Variance = report[i].AmountBudgeted - report[i].AmountSpent

\* a report with a budget line that has spending, an out-of-budget row and
\* the TOTAL row of a category with two rows
C8_Witness ==
    /\ \E i \in ReportRows :
          /\ ~IsRollup(report[i]) /\ report[i].Category # "OOB"
          /\ report[i].AmountBudgeted > 0 /\ report[i].AmountSpent > 0
    /\ \E i \in ReportRows :
          /\ ~IsRollup(report[i]) /\ report[i].Category = "OOB"
          /\ report[i].AmountBudgeted = 0 /\ report[i].AmountSpent > 0
          /\ report[i].Variance < 0
    /\ \E i \in ReportRows :
          /\ IsRollup(report[i])
          /\ Len(Children(report[i].Category)) = 2

\* C9: every category of the report, "OOB" included, has exactly one TOTAL
\* row, and that row's Amount Spent is the sum of the Amount Spent of the
\* category's line-item rows.
C9_RollupIsSumOfChildren ==
    \A i \in ReportRows :
        LET c == report[i].Category
        IN  /\ Cardinality(Rollups(c)) = 1
            /\ \A t \in Rollups(c) :
                  report[t].AmountSpent = SumOver(Children(c), "AmountSpent")

\* a report whose "OOB" category rolls up two rows with spending, next to a
\* budgeted category with spending of its own
C9_Witness ==
    /\ \E t \in Rollups("OOB") :
          /\ Len(Children("OOB")) = 2
          /\ \A k \in 1..2 : Children("OOB")[k].AmountSpent > 0
          /\ report[t].AmountSpent > Children("OOB")[1].AmountSpent
    /\ \E t \in Rollups("Admin") : report[t].AmountSpent > 0

\* the status the rule gives budgeted amount b >= 0 and spent amount s
RuleStatus(b, s) ==
    IF b = 0 THEN ( IF s > 0 THEN "Overspent" ELSE "Within Budget" )
    ELSE IF 10 * s <= 7 * b THEN "Within Budget"
    ELSE IF s <= b THEN "Warning - Approaching Limit"
    ELSE "Overspent"

\* C10: every row whose Category is not "OOB" has the status of the rule for
\* its budgeted and spent amounts (spent = budgeted > 0 gives Warning), and
\* a category's TOTAL row has the status of the rule for the sums of its
\* line items' budgeted and spent amounts.
C10_StatusFollowsThresholds ==
    \A i \in ReportRows :
        LET r == report[i]
        IN  r.Category # "OOB" =>
              /\ r.AmountBudgeted >= 0
              /\ r.Status = RuleStatus(r.AmountBudgeted, r.AmountSpent)
              /\ IsRollup(r) =>
                    r.Status = RuleStatus(SumOver(Children(r.Category), "AmountBudgeted"),
                                          SumOver(Children(r.Category), "AmountSpent"))

\* a report with a line spent exactly to its budget (Warning), a line with no
\* budget and some spending (Overspent), and their category's TOTAL row
C10_Witness ==
    /\ \E i \in ReportRows :
          /\ ~IsRollup(report[i]) /\ report[i].Category = "Admin"
          /\ report[i].AmountBudgeted > 0
          /\ report[i].AmountSpent = report[i].AmountBudgeted
          /\ report[i].Status = "Warning - Approaching Limit"
    /\ \E i \in ReportRows :
          /\ ~IsRollup(report[i]) /\ report[i].Category = "Admin"
          /\ report[i].AmountBudgeted = 0 /\ report[i].AmountSpent > 0
          /\ report[i].Status = "Overspent"
    /\ \E t \in Rollups("Admin") : report[t].Status = "Overspent"

\* the expenses of df_expense spelled exactly (category, subcategory)
SpentOn(category, subcategory) ==
    SumOver(SelectSeq(df_expense, LAMBDA e : /\ e.category_display = category
                                              /\ e.subcategory_display = subcategory),
            "amount_spent")

HasBudgetLine(category, subcategory) ==
    \E k \in 1..Len(df_budget) : /\ df_budget[k].Category = category
                                 /\ df_budget[k].SubCategory = subcategory

\* C11: an aggregated expense whose (category, sub-category) is no budget
\* line has a row under "OOB" with Amount Budgeted 0, Variance = -Amount
\* Spent and Status "Out of Budget", has no row under any other category, and
\* the Amount Spent of every budget line is the spending on that line alone.
C11_OutOfBudgetOnlyUnderOOB ==
    report # << >> =>
      /\ \A j \in 1..Len(df_expense) :
            LET e == df_expense[j]
            IN  ~HasBudgetLine(e.category_display, e.subcategory_display) =>
                  /\ \E i \in ReportRows :
                        /\ report[i].Category = "OOB"
                        /\ report[i].SubCategory = e.subcategory_display
                        /\ report[i].AmountBudgeted = 0
                        /\ report[i].AmountSpent = e.amount_spent
                        /\ report[i].Variance = 0 - e.amount_spent
                        /\ report[i].Status = "Out of Budget"
                  /\ \A i \in ReportRows :
                        ( report[i].Category = e.category_display
                          /\ report[i].SubCategory = e.subcategory_display )
                        => report[i].Category = "OOB"
      /\ \A k \in 1..Len(df_budget) :
            df_budget[k].Category # "OOB" =>
              \A i \in ReportRows :
                 ( report[i].Category = df_budget[k].Category
                   /\ report[i].SubCategory = df_budget[k].SubCategory )
                 => report[i].AmountSpent =
                       SpentOn(df_budget[k].Category, df_budget[k].SubCategory)
      /\ SumOver(SelectSeq(report, LAMBDA r : ~IsRollup(r)), "AmountSpent")
            = SumOver(df_expense, "amount_spent")

\* a report for a budget with the line Admin / Supplies, an expense on that
\* line and an expense on Admin / Rent, which is no line of the budget
C11_Witness ==
    /\ report # << >>
    /\ HasBudgetLine("Admin", "Supplies") /\ ~HasBudgetLine("Admin", "Rent")
    /\ SpentOn("Admin", "Supplies") > 0 /\ SpentOn("Admin", "Rent") > 0
    /\ \E i \in ReportRows : /\ report[i].Category = "OOB"
                             /\ report[i].SubCategory = "Rent"
                             /\ report[i].AmountSpent = SpentOn("Admin", "Rent")

(***************************************************************************)
(* Text.  A text is a string where the program only compares it, and the  *)
(* sequence of its characters where the program takes it apart.            *)
(***************************************************************************)
\* the characters of the texts of the model
Chars(text) ==
    CASE text = "Admin" -> << "A", "d", "m", "i", "n" >>
      [] text = "admin" -> << "a", "d", "m", "i", "n" >>
      [] text = "Facilities" -> << "F", "a", "c", "i", "l", "i", "t", "i", "e", "s" >>
      [] text = "OOB" -> << "O", "O", "B" >>
      [] text = "Rent" -> << "R", "e", "n", "t" >>
      [] text = "Supplies" -> << "S", "u", "p", "p", "l", "i", "e", "s" >>
      [] text = "TOTAL" -> << "T", "O", "T", "A", "L" >>
      [] text = "Paid" -> << "P", "a", "i", "d" >>
      [] text = "void" -> << "v", "o", "i", "d" >>
      [] text = "VOID" -> << "V", "O", "I", "D" >>
      [] text = "Void" -> << "V", "o", "i", "d" >>
      [] text = "approved" -> << "a", "p", "p", "r", "o", "v", "e", "d" >>
      [] text = "declined" -> << "d", "e", "c", "l", "i", "n", "e", "d" >>
      [] text = "Declined" -> << "D", "e", "c", "l", "i", "n", "e", "d" >>
      [] text = "DECLINED" -> << "D", "E", "C", "L", "I", "N", "E", "D" >>
      [] text = "OPEX" -> << "O", "P", "E", "X" >>
      [] text = "opex" -> << "o", "p", "e", "x" >>
      [] text = "CAPEX" -> << "C", "A", "P", "E", "X" >>
      [] text = "budget(opex)" ->
           << "b", "u", "d", "g", "e", "t", "(", "o", "p", "e", "x", ")" >>
      [] text = "Budget(OPEX)" ->
           << "B", "u", "d", "g", "e", "t", "(", "O", "P", "E", "X", ")" >>
      [] text = "budget(capex)" ->
           << "b", "u", "d", "g", "e", "t", "(", "c", "a", "p", "e", "x", ")" >>
      [] text = "opex budget" -> << "o", "p", "e", "x", " ", "b", "u", "d", "g", "e", "t" >>
      [] text = "nan" -> << "n", "a", "n" >>
      [] text = "January" -> << "J", "a", "n", "u", "a", "r", "y" >>
      [] text = "February" -> << "F", "e", "b", "r", "u", "a", "r", "y" >>
      [] text = "March" -> << "M", "a", "r", "c", "h" >>
      [] text = "April" -> << "A", "p", "r", "i", "l" >>
      [] text = "May" -> << "M", "a", "y" >>
      [] text = "June" -> << "J", "u", "n", "e" >>
      [] text = "July" -> << "J", "u", "l", "y" >>
      [] text = "August" -> << "A", "u", "g", "u", "s", "t" >>
      [] text = "September" -> << "S", "e", "p", "t", "e", "m", "b", "e", "r" >>
      [] text = "October" -> << "O", "c", "t", "o", "b", "e", "r" >>
      [] text = "November" -> << "N", "o", "v", "e", "m", "b", "e", "r" >>
      [] text = "December" -> << "D", "e", "c", "e", "m", "b", "e", "r" >>
      [] text = "Rent " -> << "R", "e", "n", "t", " " >>
      [] text = "changeme1" -> << "c", "h", "a", "n", "g", "e", "m", "e", "1" >>
      [] text = "n3wsecret" -> << "n", "3", "w", "s", "e", "c", "r", "e", "t" >>
      [] text = "short" -> << "s", "h", "o", "r", "t" >>
      [] text = "***" -> << "*", "*", "*" >>
      [] text = "Admin *** Rent" ->
           << "A", "d", "m", "i", "n", " ", "*", "*", "*", " ", "R", "e", "n", "t" >>
      [] text = "admin *** Rent" ->
           << "a", "d", "m", "i", "n", " ", "*", "*", "*", " ", "R", "e", "n", "t" >>
      [] text = "Admin *** Supplies" ->
           << "A", "d", "m", "i", "n", " ", "*", "*", "*", " ", "S", "u", "p", "p", "l", "i",
              "e", "s" >>
      [] text = "*** Rent" -> << "*", "*", "*", " ", "R", "e", "n", "t" >>
      [] text = "Admin *** Rent *** x" ->
           << "A", "d", "m", "i", "n", " ", "*", "*", "*", " ", "R", "e", "n", "t", " ", "*",
              "*", "*", " ", "x" >>

UpperCase ==
    << "A", "B", "C", "D", "E", "F", "G", "H", "I", "J", "K", "L", "M",
       "N", "O", "P", "Q", "R", "S", "T", "U", "V", "W", "X", "Y", "Z" >>
LowerCase ==
    << "a", "b", "c", "d", "e", "f", "g", "h", "i", "j", "k", "l", "m",
       "n", "o", "p", "q", "r", "s", "t", "u", "v", "w", "x", "y", "z" >>
Whitespace == { " ", "\t", "\n", "\r" }

LowerChar(c) ==
    IF \E i \in 1..Len(UpperCase) : UpperCase[i] = c
    THEN LowerCase[CHOOSE i \in 1..Len(UpperCase) : UpperCase[i] = c]
    ELSE c

UpperChar(c) ==
    IF \E i \in 1..Len(LowerCase) : LowerCase[i] = c
    THEN UpperCase[CHOOSE i \in 1..Len(LowerCase) : LowerCase[i] = c]
    ELSE c

\* str.lower(), str.upper()
lower(chars) == [ i \in 1..Len(chars) |-> LowerChar(chars[i]) ]
upper(chars) == [ i \in 1..Len(chars) |-> UpperChar(chars[i]) ]

\* str.strip()
RECURSIVE lstrip(_)
lstrip(chars) ==
    IF chars # << >> /\ Head(chars) \in Whitespace THEN lstrip(Tail(chars)) ELSE chars

RECURSIVE rstrip(_)
rstrip(chars) ==
    IF chars # << >> /\ chars[Len(chars)] \in Whitespace
    THEN rstrip(SubSeq(chars, 1, Len(chars) - 1))
    ELSE chars

strip(chars) == rstrip(lstrip(chars))

\* str.replace(" ", "")
remove_spaces(chars) == SelectSeq(chars, LAMBDA c : c # " ")

\* normalize_key(key) = str(key).strip().lower().replace(" ", "")
normalize_key(chars) == remove_spaces(lower(strip(chars)))

\* a (category, sub-category) of the budget and one of the ledger are the same
\* line item when their normalized keys are equal
SameLineItem(c1, s1, c2, s2) ==
    /\ normalize_key(Chars(c1)) = normalize_key(Chars(c2))
    /\ normalize_key(Chars(s1)) = normalize_key(Chars(s2))

(***************************************************************************)
(* Matching of budget lines and expenses.                                  *)
(***************************************************************************)
\* the spending on the line item (category, subcategory), whatever its spelling
SpentOnLineItem(category, subcategory) ==
    SumOver(SelectSeq(df_expense,
                      LAMBDA e : SameLineItem(e.category_display, e.subcategory_display,
                                              category, subcategory)),
            "amount_spent")

\* the spending on line items that no budget line has
SpentOffBudget ==
    SumOver(SelectSeq(df_expense,
                      LAMBDA e : ~\E k \in 1..Len(df_budget) :
                                     SameLineItem(e.category_display, e.subcategory_display,
                                                  df_budget[k].Category,
                                                  df_budget[k].SubCategory)),
            "amount_spent")

TileTotal(status) ==
    LET i == CHOOSE i \in 1..Len(rows_summary) : rows_summary[i].StatusCategory = status
    IN  rows_summary[i].Total

\* C12: budget lines and expenses are matched on normalized keys: the report
\* row of a budget line carries the spending of every expense with the line's
\* normalized keys, and the Out of Budget tile counts only the expenses whose
\* normalized keys no budget line has.
C12_MatchedOnNormalizedKeys ==
    report # << >> =>
      /\ \A k \in 1..Len(df_budget) :
            df_budget[k].Category # "OOB" =>
              \A i \in ReportRows :
                 ( report[i].Category = df_budget[k].Category
                   /\ report[i].SubCategory = df_budget[k].SubCategory )
                 => report[i].AmountSpent =
                       SpentOnLineItem(df_budget[k].Category, df_budget[k].SubCategory)
      /\ TileTotal("Out of Budget") = SpentOffBudget

(***************************************************************************)
(* utils/expense_parser.py: parseExpense and load_raw_expenses.            *)
(* A ledger row has the fields Company, BudgetYear, Status, Approver1,     *)
(* Approver2, Approver3, Classification, SubCategory (the composite        *)
(* "Category *** Sub-Category"), Amount and Currency.                      *)
(***************************************************************************)
MaxRows == 2

required_columns ==
    { "Company", "Vendor", "Classification", "Sub-Category", "Amount", "Invoice Date",
      "Status", "Approver-1 approval", "Approver-2 approval", "Approver-3 approval",
      "Currency", "Budget Year" }

AggColumns ==
    { "category_key", "subcategory_key", "category_display", "subcategory_display",
      "amount_spent" }

RawColumns ==
    required_columns \cup { "category_display", "subcategory_display", "amount_spent" }

\* the value pandas gives a missing text
NaN == << "<NaN>" >>

\* the rate table: currency code -> USD per unit
get_usd_rates == [ c \in { "USD", "EUR" } |-> IF c = "USD" THEN 1 ELSE 2 ]

\* the USD amount of a row, or no amount when the currency has no rate
convert_row_amount_to_usd(row, rates) ==
    IF row.Currency \in DOMAIN rates
    THEN [ ok |-> TRUE, usd |-> row.Amount * rates[row.Currency] ]
    ELSE [ ok |-> FALSE, usd |-> 0 ]

\* df[df["Company"] == "Musson"]
CompanyFilter(rows) == SelectSeq(rows, LAMBDA r : r.Company = "Musson")

\* df[df["Budget Year"] == budget_year]
YearFilter(rows, budget_year) == SelectSeq(rows, LAMBDA r : r.BudgetYear = budget_year)

\* a Status filter that knows the lower-case spelling only
StatusFilterExact(rows) == SelectSeq(rows, LAMBDA r : Chars(r.Status) # Chars("void"))

\* df[df["Status"].astype(str).str.lower() != "void"]
StatusFilter(rows) == SelectSeq(rows, LAMBDA r : lower(Chars(r.Status)) # Chars("void"))

\* df[~df["Status"].astype(str).str.upper().eq("VOID")]
StatusFilterRaw(rows) == SelectSeq(rows, LAMBDA r : upper(Chars(r.Status)) # Chars("VOID"))

\* for col in the three approver columns: df[~df[col]...str.lower().eq("declined")]
ApproverFilter(rows) ==
    LET f1 == SelectSeq(rows, LAMBDA r : lower(Chars(r.Approver1)) # Chars("declined"))
        f2 == SelectSeq(f1, LAMBDA r : lower(Chars(r.Approver2)) # Chars("declined"))
    IN  SelectSeq(f2, LAMBDA r : lower(Chars(r.Approver3)) # Chars("declined"))

\* df[df["Classification"].astype(str).str.upper() == classification]
ClassificationFilter(rows, classification) ==
    SelectSeq(rows, LAMBDA r : upper(Chars(r.Classification)) = Chars(classification))

\* filters that let an empty result through before they look at the budget type
hard_filters_empty_first(rows, budget_year, budget_type, raw_view) ==
    LET approved == ApproverFilter(
                      IF raw_view
                      THEN StatusFilterRaw(YearFilter(CompanyFilter(rows), budget_year))
                      ELSE StatusFilter(YearFilter(CompanyFilter(rows), budget_year)))
        type == lower(Chars(budget_type))
    IN  IF approved = << >> THEN [ raised |-> "", rows |-> << >> ]
        ELSE IF type = Chars("budget(opex)")
        THEN [ raised |-> "", rows |-> ClassificationFilter(approved, "OPEX") ]
        ELSE IF type = Chars("budget(capex)")
        THEN [ raised |-> "", rows |-> ClassificationFilter(approved, "CAPEX") ]
        ELSE [ raised |-> "unknown_budget_type", rows |-> << >> ]

\* step 3 of both entry points: the hard business filters, in the code's order
hard_filters(rows, budget_year, budget_type, raw_view) ==
    LET approved == ApproverFilter(
                      IF raw_view
                      THEN StatusFilterRaw(YearFilter(CompanyFilter(rows), budget_year))
                      ELSE StatusFilter(YearFilter(CompanyFilter(rows), budget_year)))
        type == lower(Chars(budget_type))
    IN  IF type = Chars("budget(opex)")
        THEN [ raised |-> "", rows |-> ClassificationFilter(approved, "OPEX") ]
        ELSE IF type = Chars("budget(capex)")
        THEN [ raised |-> "", rows |-> ClassificationFilter(approved, "CAPEX") ]
        ELSE [ raised |-> "unknown_budget_type", rows |-> << >> ]

\* the first position from i on where "***" starts in chars, 0 when there is none
RECURSIVE find_delimiter(_, _)
find_delimiter(chars, i) ==
    IF i + 2 > Len(chars) THEN 0
    ELSE IF SubSeq(chars, i, i + 2) = Chars("***") THEN i
    ELSE find_delimiter(chars, i + 1)

\* str.split("***", n=1, regex=False) of one value
split_once(chars) ==
    LET at == find_delimiter(chars, 1)
    IN  IF at = 0 THEN << chars >>
        ELSE << SubSeq(chars, 1, at - 1), SubSeq(chars, at + 3, Len(chars)) >>

\* split_cols.shape[1]: expand=True makes as many columns as the longest split
RECURSIVE split_width(_)
split_width(rows) ==
    IF rows = << >> THEN 0
    ELSE LET here == Len(split_once(Chars(Head(rows).SubCategory)))
             rest == split_width(Tail(rows))
         IN  IF here > rest THEN here ELSE rest

\* split_cols[0].str.strip(), split_cols[1].str.strip(); a row with no
\* delimiter has no value in column 1
category_display_of(row) == strip(split_once(Chars(row.SubCategory))[1])
subcategory_display_of(row) ==
    LET parts == split_once(Chars(row.SubCategory))
    IN  IF Len(parts) = 2 THEN strip(parts[2]) ELSE NaN

\* normalize_key on a column value: str(NaN) is "nan"
key_of(display) ==
    IF display = NaN THEN normalize_key(Chars("nan")) ELSE normalize_key(display)

\* the columns step 4 adds and the amount of step 5, still with the rows that
\* could not be converted
with_computed_fields(rows, rates) ==
    [ i \in 1..Len(rows) |->
        [ source |-> rows[i],
          category_display |-> category_display_of(rows[i]),
          subcategory_display |-> subcategory_display_of(rows[i]),
          category_key |-> key_of(category_display_of(rows[i])),
          subcategory_key |-> key_of(subcategory_display_of(rows[i])),
          converted |-> convert_row_amount_to_usd(rows[i], rates) ] ]

RowWithAmount(r) ==
    [ source |-> r.source,
      category_display |-> r.category_display,
      subcategory_display |-> r.subcategory_display,
      category_key |-> r.category_key,
      subcategory_key |-> r.subcategory_key,
      amount_spent |-> r.converted.usd ]

\* rows that could not be converted kept with an amount of 0
drop_unconverted_zeroed(rows) == [ i \in 1..Len(rows) |-> RowWithAmount(rows[i]) ]

\* df = df[pd.notna(df["amount_spent"])]
drop_unconverted(rows) ==
    LET kept == SelectSeq(rows, LAMBDA r : r.converted.ok)
    IN  [ i \in 1..Len(kept) |-> RowWithAmount(kept[i]) ]

\* the order of characters and of texts (Python's str comparison)
CharOrder ==
    << "\t", "\n", "\r", " ", "(", ")", "*" >> \o UpperCase \o LowerCase

CharRank(c) == CHOOSE i \in 1..Len(CharOrder) : CharOrder[i] = c

RECURSIVE TextLess(_, _)
TextLess(a, b) ==
    IF b = << >> THEN FALSE
    ELSE IF a = << >> THEN TRUE
    ELSE IF Head(a) = Head(b) THEN TextLess(Tail(a), Tail(b))
    ELSE CharRank(Head(a)) < CharRank(Head(b))

GroupKey(r) ==
    << r.category_key, r.subcategory_key, r.category_display, r.subcategory_display >>

RECURSIVE KeyLess(_, _)
KeyLess(k1, k2) ==
    IF k1 = << >> THEN FALSE
    ELSE IF Head(k1) = Head(k2) THEN KeyLess(Tail(k1), Tail(k2))
    ELSE TextLess(Head(k1), Head(k2))

AggRow(r) ==
    [ category_key |-> r.category_key, subcategory_key |-> r.subcategory_key,
      category_display |-> r.category_display,
      subcategory_display |-> r.subcategory_display,
      amount_spent |-> r.amount_spent ]

RECURSIVE InsertAgg(_, _)
InsertAgg(groups, g) ==
    IF groups = << >> THEN << g >>
    ELSE IF GroupKey(Head(groups)) = GroupKey(g)
    THEN << [ Head(groups) EXCEPT !.amount_spent = @ + g.amount_spent ] >> \o Tail(groups)
    ELSE IF KeyLess(GroupKey(g), GroupKey(Head(groups))) THEN << g >> \o groups
    ELSE << Head(groups) >> \o InsertAgg(Tail(groups), g)

\* df.groupby([category_key, subcategory_key, category_display,
\* subcategory_display], as_index=False)["amount_spent"].sum(): sorted groups;
\* a row with a missing value in a group column is in no group
RECURSIVE df_agg(_)
df_agg(rows) ==
    IF rows = << >> THEN << >>
    ELSE LET r == rows[Len(rows)]
             before == df_agg(SubSeq(rows, 1, Len(rows) - 1))
         IN  IF NaN \in Range(GroupKey(r)) THEN before
             ELSE InsertAgg(before, AggRow(r))

Raised(error, filtered) ==
    [ called |-> TRUE, raised |-> error, filtered |-> filtered,
      columns |-> { }, rows |-> << >> ]

Returned(filtered, columns, rows) ==
    [ called |-> TRUE, raised |-> "", filtered |-> filtered,
      columns |-> columns, rows |-> rows ]

\* parseExpense(expense_file_id, budget_year, budget_type, cache_day_key)
parseExpense(file, budget_year, budget_type) ==
    IF ~(required_columns \subseteq file.columns)
    THEN Raised("missing_columns", << >>)
    ELSE LET f == hard_filters(file.rows, budget_year, budget_type, FALSE)
         IN  IF f.raised # "" THEN Raised(f.raised, << >>)
             ELSE IF f.rows = << >> THEN Returned(f.rows, AggColumns, << >>)
             ELSE IF split_width(f.rows) # 2 THEN Raised("bad_format", f.rows)
             ELSE LET kept == drop_unconverted(
                                with_computed_fields(f.rows, get_usd_rates))
                  IN  IF kept = << >> THEN Returned(f.rows, AggColumns, << >>)
                      ELSE Returned(f.rows, AggColumns, df_agg(kept))

RawRow(r) ==
    [ source |-> r.source,
      category_display |-> r.category_display,
      subcategory_display |-> r.subcategory_display,
      amount_spent |-> r.amount_spent ]

\* load_raw_expenses(expense_file_id, budget_year, budget_type, cache_day_key)
load_raw_expenses(file, budget_year, budget_type) ==
    IF ~(required_columns \subseteq file.columns)
    THEN Raised("missing_columns", << >>)
    ELSE LET f == hard_filters(file.rows, budget_year, budget_type, TRUE)
         IN  IF f.raised # "" THEN Raised(f.raised, << >>)
             ELSE IF f.rows = << >> THEN Returned(f.rows, { }, << >>)
             ELSE IF split_width(f.rows) # 2 THEN Raised("bad_format", f.rows)
             ELSE LET kept == drop_unconverted(
                                with_computed_fields(f.rows, get_usd_rates))
                  IN  Returned(f.rows, RawColumns,
                               [ i \in 1..Len(kept) |-> RawRow(kept[i]) ])

(***************************************************************************)
(* The parser called on an expense CSV.                                    *)
(***************************************************************************)
\* a row that passes every filter of an OPEX request for 2025
GoodRow(composite, amount, currency) ==
    [ Company |-> "Musson", BudgetYear |-> 2025, Status |-> "Paid",
      Approver1 |-> "approved", Approver2 |-> "approved", Approver3 |-> "approved",
      Classification |-> "OPEX", SubCategory |-> composite,
      Amount |-> amount, Currency |-> currency ]

\* rows that differ in composite field and currency; amounts are powers of two
ContentRows ==
    { GoodRow("Admin *** Rent", 1, "USD"),
      GoodRow("admin *** Rent", 2, "USD"),
      GoodRow("Admin *** Supplies", 4, "EUR"),
      GoodRow("Admin *** Rent", 16, "XYZ"),
      GoodRow("Admin", 32, "USD"),
      GoodRow("*** Rent", 64, "USD"),
      GoodRow("Admin *** Rent *** x", 128, "USD") }

\* rows that differ from a good row in one filtered field
FilterRows ==
    LET base == GoodRow("Admin *** Rent", 256, "USD")
    IN  { [ base EXCEPT !.Company = "Other" ],
          [ base EXCEPT !.BudgetYear = 2024 ],
          [ base EXCEPT !.Status = "void" ],
          [ base EXCEPT !.Status = "VOID" ],
          [ base EXCEPT !.Status = "Void" ],
          [ base EXCEPT !.Approver1 = "declined" ],
          [ base EXCEPT !.Approver2 = "Declined" ],
          [ base EXCEPT !.Approver3 = "DECLINED" ],
          [ base EXCEPT !.Classification = "CAPEX" ],
          [ base EXCEPT !.Classification = "opex" ] }

LedgerRows == ContentRows \cup FilterRows

RECURSIVE SeqsUpTo(_, _)
SeqsUpTo(S, n) ==
    IF n = 0 THEN { << >> }
    ELSE LET shorter == SeqsUpTo(S, n - 1)
         IN  shorter \cup { Append(q, x) : q \in shorter, x \in S }

LedgerInputs ==
    { [ columns |-> required_columns, rows |-> rows ] : rows \in SeqsUpTo(LedgerRows, MaxRows) }
    \cup { [ columns |-> required_columns \ { "Currency" }, rows |-> << >> ] }

BudgetTypeInputs == { "budget(opex)", "Budget(OPEX)", "budget(capex)", "opex budget" }

InitParse ==
    /\ budget_state = OtherRows
    /\ saved_state =
          [ s \in Sessions |-> load_budget_state_monthly(budget_state, selected_budget) ]
    /\ pending_allocations = [ s \in Sessions |-> << >> ]
    /\ editor_version = [ s \in Sessions |-> 0 ]
    /\ pc = [ s \in Sessions |-> "idle" ]
    /\ final_df = [ s \in Sessions |-> NoFrame ]
    /\ outcome = [ s \in Sessions |-> "" ]
    /\ sql = [ s \in Sessions |-> << >> ]
    /\ df_budget = AllocBudget
    /\ df_expense = << >>
    /\ report = << >>
    /\ rows_summary = << >>
    /\ ledger \in LedgerInputs
    /\ request \in [ budget_year : { 2025 }, budget_type : BudgetTypeInputs ]
    /\ parsed = NotCalled
    /\ raw = NotCalled
    /\ SysIdle

\* pages/3_user.py calls parseExpense for the active budget's year and type
ParseExpense ==
    /\ ~parsed.called
    /\ parsed' = parseExpense(ledger, request.budget_year, request.budget_type)
    /\ UNCHANGED << budget_state, saved_state, pending_allocations, editor_version,
                    pc, final_df, outcome, sql, df_budget, df_expense, report,
                    rows_summary, ledger, request, raw, sysVars >>

\* the drill-down of the report calls load_raw_expenses with the same arguments
LoadRawExpenses ==
    /\ ~raw.called
    /\ raw' = load_raw_expenses(ledger, request.budget_year, request.budget_type)
    /\ UNCHANGED << budget_state, saved_state, pending_allocations, editor_version,
                    pc, final_df, outcome, sql, df_budget, df_expense, report,
                    rows_summary, ledger, request, parsed, sysVars >>

NextParse == ParseExpense \/ LoadRawExpenses

SpecParse == InitParse /\ [][NextParse]_vars

(***************************************************************************)
(* Properties of the expense parser.                                       *)
(***************************************************************************)
ColumnsPresent == required_columns \subseteq ledger.columns

OpexRequested == request.budget_type \in { "budget(opex)", "Budget(OPEX)" }
CapexRequested == request.budget_type \in { "budget(capex)" }
BudgetTypeKnown == OpexRequested \/ CapexRequested

\* the eligibility rule for a ledger row, with the spellings written out
Eligible(r) ==
    /\ r.Company = "Musson"
    /\ r.BudgetYear = request.budget_year
    /\ r.Status \notin { "void", "VOID", "Void" }
    /\ r.Approver1 \notin { "declined", "Declined", "DECLINED" }
    /\ r.Approver2 \notin { "declined", "Declined", "DECLINED" }
    /\ r.Approver3 \notin { "declined", "Declined", "DECLINED" }
    /\ \/ OpexRequested /\ r.Classification \in { "OPEX", "opex" }
       \/ CapexRequested /\ r.Classification \in { "CAPEX" }

EligibleRows == SelectSeq(ledger.rows, Eligible)

HasRate(r) == r.Currency \in { "USD", "EUR" }
UsdAmount(r) == IF r.Currency = "EUR" THEN 2 * r.Amount ELSE r.Amount

\* the composite field has exactly one "***", with text on both sides
ProperComposite(r) ==
    LET chars == Chars(r.SubCategory)
        at == find_delimiter(chars, 1)
    IN  /\ at # 0
        /\ find_delimiter(chars, at + 3) = 0
        /\ strip(SubSeq(chars, 1, at - 1)) # << >>
        /\ strip(SubSeq(chars, at + 3, Len(chars))) # << >>

RECURSIVE SumUsd(_)
SumUsd(rows) == IF rows = << >> THEN 0 ELSE UsdAmount(Head(rows)) + SumUsd(Tail(rows))

\* the converted spending of the eligible rows with a rate whose composite
\* field gives the displays (category, subcategory)
EligibleSpentOn(category, subcategory) ==
    SumUsd(SelectSeq(EligibleRows,
                     LAMBDA r : /\ HasRate(r)
                                /\ category_display_of(r) = category
                                /\ subcategory_display_of(r) = subcategory))

\* C13: a ledger row whose currency has no rate is in no aggregate and not in
\* the raw view; it does not fail the batch, whose other rows are aggregated
\* and listed; and when no row has a rate (or none is eligible) parseExpense
\* returns no rows under its five columns instead of raising.
C13_UnconvertibleRowsDropped ==
    /\ ( raw.called /\ raw.raised = "" ) =>
          \A i \in 1..Len(raw.rows) : HasRate(raw.rows[i].source)
    /\ ( parsed.called /\ parsed.raised = "" ) =>
          \A i \in 1..Len(parsed.rows) :
             parsed.rows[i].amount_spent =
                EligibleSpentOn(parsed.rows[i].category_display,
                                parsed.rows[i].subcategory_display)
    /\ ( ColumnsPresent /\ BudgetTypeKnown
         /\ \A i \in 1..Len(EligibleRows) : ProperComposite(EligibleRows[i]) ) =>
          /\ parsed.called =>
                /\ parsed.raised = ""
                /\ parsed.columns = AggColumns
                /\ \A i \in 1..Len(EligibleRows) :
                      HasRate(EligibleRows[i]) =>
                         \E k \in 1..Len(parsed.rows) :
                            /\ parsed.rows[k].category_display
                                  = category_display_of(EligibleRows[i])
                            /\ parsed.rows[k].subcategory_display
                                  = subcategory_display_of(EligibleRows[i])
                /\ ( \A i \in 1..Len(EligibleRows) : ~HasRate(EligibleRows[i]) )
                      => parsed.rows = << >>
          /\ raw.called =>
                /\ raw.raised = ""
                /\ [ i \in 1..Len(raw.rows) |-> raw.rows[i].source ]
                      = SelectSeq(EligibleRows, HasRate)

\* both views taken of a ledger with an eligible row in a currency without a
\* rate and an eligible row in USD: one aggregate, one raw row
C13_Witness ==
    /\ parsed.called /\ raw.called
    /\ parsed.raised = "" /\ raw.raised = ""
    /\ \E i \in 1..Len(EligibleRows) : ~HasRate(EligibleRows[i])
    /\ Len(EligibleRows) = 2
    /\ Len(parsed.rows) = 1 /\ Len(raw.rows) = 1
    /\ parsed.rows[1].amount_spent = raw.rows[1].amount_spent

\* C14: when an eligible row's composite field does not split on "***" into
\* exactly two non-empty parts, parseExpense and load_raw_expenses raise and
\* return no rows.
C14_MalformedCompositeFailsBatch ==
    ( /\ ColumnsPresent /\ BudgetTypeKnown
      /\ \E i \in 1..Len(EligibleRows) : ~ProperComposite(EligibleRows[i]) ) =>
        /\ parsed.called => ( parsed.raised # "" /\ parsed.rows = << >> )
        /\ raw.called => ( raw.raised # "" /\ raw.rows = << >> )

\* the rows of the ledger left by the filters applied in the opposite order
FilteredInReverse ==
    CompanyFilter(
      YearFilter(
        StatusFilter(
          ApproverFilter(
            ClassificationFilter(ledger.rows,
                                 IF OpexRequested THEN "OPEX" ELSE "CAPEX"))),
        request.budget_year))

\* C15: the rows that survive the filters of either entry point are exactly
\* the rows with Company "Musson", the requested Budget Year, a Status that is
\* not "void" in any letter case, no approver field "declined" in any letter
\* case and the requested Classification in any letter case; applying the
\* filters in the opposite order leaves the same rows.
C15_SurvivorsAreEligibleRows ==
    /\ ( parsed.called /\ ColumnsPresent /\ BudgetTypeKnown ) =>
          /\ parsed.filtered = EligibleRows
          /\ parsed.filtered = FilteredInReverse
    /\ ( raw.called /\ ColumnsPresent /\ BudgetTypeKnown ) =>
          raw.filtered = EligibleRows

\* both views of a ledger with a row voided in upper case and a row whose
\* Classification is spelled in lower case: only the second survives
C15_Witness ==
    /\ parsed.called /\ raw.called /\ OpexRequested
    /\ Len(ledger.rows) = 2
    /\ ledger.rows[1].Status = "VOID"
    /\ ledger.rows[2].Classification = "opex"
    /\ parsed.filtered = << ledger.rows[2] >>
    /\ raw.filtered = << ledger.rows[2] >>

\* C16: called with a budget type that is neither "budget(opex)" nor
\* "budget(capex)" in any letter case, parseExpense and load_raw_expenses raise
\* and return nothing, whatever the ledger holds.
C16_UnknownBudgetTypeRaises ==
    ~BudgetTypeKnown =>
        /\ parsed.called =>
              ( parsed.raised # "" /\ parsed.rows = << >> /\ parsed.columns = { } )
        /\ raw.called =>
              ( raw.raised # "" /\ raw.rows = << >> /\ raw.columns = { } )

\* both entry points called with an unknown budget type on a ledger without rows
C16_Witness ==
    /\ parsed.called /\ raw.called
    /\ ~BudgetTypeKnown /\ ColumnsPresent /\ ledger.rows = << >>
    /\ parsed.raised = "unknown_budget_type" /\ raw.raised = "unknown_budget_type"

\* the converted spending of the eligible rows with a rate whose displays
\* normalize to the keys (category_key, subcategory_key)
EligibleSpentOnKeys(category_key, subcategory_key) ==
    SumUsd(SelectSeq(EligibleRows,
                     LAMBDA r : /\ HasRate(r)
                                /\ normalize_key(category_display_of(r)) = category_key
                                /\ normalize_key(subcategory_display_of(r)) = subcategory_key))

\* C17: the aggregated view has exactly one row per pair of normalized keys
\* of the filtered, converted ledger, and the row's amount_spent is the sum of
\* all transactions of that pair, however they spell the category.
C17_OneRowPerKeyPair ==
    ( /\ parsed.called /\ parsed.raised = ""
      /\ \A i \in 1..Len(EligibleRows) : ProperComposite(EligibleRows[i]) ) =>
        /\ \A i, j \in 1..Len(parsed.rows) :
              ( /\ parsed.rows[i].category_key = parsed.rows[j].category_key
                /\ parsed.rows[i].subcategory_key = parsed.rows[j].subcategory_key )
              => i = j
        /\ \A i \in 1..Len(parsed.rows) :
              parsed.rows[i].amount_spent =
                 EligibleSpentOnKeys(parsed.rows[i].category_key,
                                     parsed.rows[i].subcategory_key)

RawSpentOn(category, subcategory) ==
    SumOver(SelectSeq(raw.rows, LAMBDA r : /\ r.category_display = category
                                           /\ r.subcategory_display = subcategory),
            "amount_spent")

\* C18: for the same ledger, rates, year and budget type the raw view and the
\* aggregated view agree: both fail or both return, every raw transaction is
\* in an aggregated row, and every aggregated amount_spent is the sum of the
\* raw rows of its (category_display, subcategory_display).
C18_RawAgreesWithAggregate ==
    ( parsed.called /\ raw.called ) =>
        /\ parsed.raised = raw.raised
        /\ \A i \in 1..Len(raw.rows) :
              \E k \in 1..Len(parsed.rows) :
                 /\ parsed.rows[k].category_display = raw.rows[i].category_display
                 /\ parsed.rows[k].subcategory_display = raw.rows[i].subcategory_display
        /\ \A k \in 1..Len(parsed.rows) :
              parsed.rows[k].amount_spent =
                 RawSpentOn(parsed.rows[k].category_display,
                            parsed.rows[k].subcategory_display)

(***************************************************************************)
(* The Budget Health Summary rendered over the persisted entries of the    *)
(* selected budget.                                                        *)
(***************************************************************************)
MaxEntries == 2

\* the statuses a persisted entry may carry: assignable ones, the two computed
\* ones, and NULL
EntryStatuses == { "Wishlist", "To be spent", "Spent", "Out of Budget", NoneValue }

TileEntries ==
    { [ file_name |-> selected_budget, category |-> "Admin", subcategory |-> "Rent",
        month |-> "January", amount |-> a, status_category |-> st ] :
        a \in { 1, 2 }, st \in EntryStatuses }

TileTables == { OtherRows \o t : t \in SeqsUpTo(TileEntries, MaxEntries) }

TileBudgets ==
    { b \in BudgetInputs : Len(b) = 1 /\ b[1].Category = "Admin" /\ b[1].Total = MaxBudget }

TileExpenses ==
    { e \in ExpenseInputs : Len(e) <= 2 /\ \A i \in 1..Len(e) : e[i].amount_spent = 7 }

InitTiles ==
    /\ budget_state \in TileTables
    /\ saved_state = [ s \in Sessions |-> NoFrame ]
    /\ pending_allocations = [ s \in Sessions |-> << >> ]
    /\ editor_version = [ s \in Sessions |-> 0 ]
    /\ pc = [ s \in Sessions |-> "idle" ]
    /\ final_df = [ s \in Sessions |-> NoFrame ]
    /\ outcome = [ s \in Sessions |-> "" ]
    /\ sql = [ s \in Sessions |-> << >> ]
    /\ df_budget \in TileBudgets
    /\ df_expense \in TileExpenses
    /\ report = << >>
    /\ ViewIdle
    /\ SysIdle

\* render_classification_dashboard up to the status tiles
RenderSummary ==
    /\ rows_summary = << >>
    /\ LET loaded == load_budget_state_monthly(budget_state, selected_budget)
       IN  /\ saved_state' = [ saved_state EXCEPT !["s1"] = loaded ]
           /\ rows_summary' = summary_tiles(loaded, df_budget, df_expense)
    /\ UNCHANGED << budget_state, pending_allocations, editor_version, pc, final_df,
                    outcome, sql, df_budget, df_expense, report,
                    ledger, request, parsed, raw, sysVars >>

NextTiles == RenderSummary

SpecTiles == InitTiles /\ [][NextTiles]_vars

(***************************************************************************)
(* Properties of the summary tiles.                                        *)
(***************************************************************************)
\* the amounts the selected budget's persisted entries carry with a status
PersistedWithStatus(status) ==
    SumOver(SelectSeq(budget_state, LAMBDA r : /\ r.file_name = selected_budget
                                               /\ r.status_category = status),
            "amount")

\* C19: the summary has the eight status categories in the fixed order, and
\* each user-assignable tile is the sum of the amounts of the persisted
\* entries with that status, 0 when there is none.
C19_TilesSumPersistedEntries ==
    rows_summary # << >> =>
      /\ [ i \in 1..Len(rows_summary) |-> rows_summary[i].StatusCategory ]
            = << "Wishlist", "To be confirmed", "Spent", "To be spent",
                 "To be spent (Projects)", "To be spent (Recurring)",
                 "Will not be spent", "Out of Budget" >>
      /\ \A st \in { "Wishlist", "To be confirmed", "To be spent",
                     "To be spent (Projects)", "To be spent (Recurring)",
                     "Will not be spent" } :
            TileTotal(st) = PersistedWithStatus(st)

\* a summary over two Wishlist entries of 1 and 2, with no entry To be confirmed
C19_Witness ==
    /\ rows_summary # << >>
    /\ PersistedWithStatus("Wishlist") = 3 /\ TileTotal("Wishlist") = 3
    /\ PersistedWithStatus("To be confirmed") = 0 /\ TileTotal("To be confirmed") = 0

\* the spending on (category, sub-category) texts that are no budget line
SpentOffBudgetLines ==
    SumOver(SelectSeq(df_expense,
                      LAMBDA e : ~HasBudgetLine(e.category_display, e.subcategory_display)),
            "amount_spent")

\* C20: whatever the persisted entries say, the Spent tile is the total of the
\* aggregated expenses and the Out of Budget tile is the total of the expenses
\* with no budget line; persisted amounts are in neither.
C20_ComputedTilesIgnorePersisted ==
    rows_summary # << >> =>
      /\ TileTotal("Spent") = SumOver(df_expense, "amount_spent")
      /\ TileTotal("Out of Budget") = SpentOffBudgetLines

\* a summary over persisted entries with the statuses Spent and Out of Budget,
\* one expense on a budget line and one on none
C20_Witness ==
    /\ rows_summary # << >>
    /\ PersistedWithStatus("Spent") > 0 /\ PersistedWithStatus("Out of Budget") > 0
    /\ Len(df_expense) = 2
    /\ TileTotal("Spent") = 14 /\ TileTotal("Out of Budget") = 7

(***************************************************************************)
(* Further properties of the Year-To-Date report.                          *)
(***************************************************************************)
\* C23: in the final report the categories are in ascending string order,
\* each category's TOTAL row is the first row of the category and is
\* followed by the category's line items with no row of another category
\* between them, and the line items of a category are in ascending string
\* order of Sub-Category.
C23_ReportOrdering ==
    /\ \A i, j \in ReportRows :
          i < j => ~StrLess(report[j].Category, report[i].Category)
    /\ \A i \in ReportRows :
          IsRollup(report[i]) <=> ( i = 1 \/ report[i - 1].Category # report[i].Category )
    /\ \A i, j \in ReportRows :
          ( /\ i < j /\ report[i].Category = report[j].Category
            /\ ~IsRollup(report[i]) /\ ~IsRollup(report[j]) )
          => ~StrLess(report[j].SubCategory, report[i].SubCategory)

\* a report of two categories, one of which has two line items that final_df
\* holds in descending order of Sub-Category
C23_Witness ==
    /\ report # << >>
    /\ \E i, j \in ReportRows : report[i].Category # report[j].Category
    /\ LET rows == report_final_df(df_budget, df_expense)
       IN  \E i, j \in 1..Len(rows) :
              /\ i < j /\ rows[i].Category = rows[j].Category
              /\ StrLess(rows[j].SubCategory, rows[i].SubCategory)

\* the rows final_df has for the lines of the budget, with their Status
BudgetLineRows ==
    WithStatus(merged(budget_base(df_budget), in_budget_expenses(df_budget, df_expense)))

\* the aggregated expenses that are on no line of the budget
OffBudgetRows == oob_expenses(df_budget, df_expense)

\* C26: Status "Out of Budget" and the OOB rollup are for expenses without a
\* budget line only: no row of a line of the budget, a line whose Category
\* reads "OOB" included, has Status "Out of Budget", and the TOTAL row that
\* rolls up the out-of-budget expenses has Amount Budgeted 0 and the sum of
\* those expenses as Amount Spent.
C26_OutOfBudgetReserved ==
    report # << >> =>
      /\ \A i \in 1..Len(BudgetLineRows) : BudgetLineRows[i].Status # "Out of Budget"
      /\ OffBudgetRows # << >> =>
            \A t \in Rollups("OOB") :
               /\ report[t].AmountBudgeted = 0
               /\ report[t].AmountSpent = SumOver(OffBudgetRows, "AmountSpent")

\* the expenses of df_expense that are on a budget line of the category
SpentInCategory(category) ==
    SumOver(SelectSeq(df_expense,
                      LAMBDA e : /\ e.category_display = category
                                 /\ HasBudgetLine(e.category_display, e.subcategory_display)),
            "amount_spent")

LineItems == SelectSeq(report, LAMBDA r : ~IsRollup(r))

\* C27: the report conserves the spending: it has one line-item row per
\* budget line and one per aggregated expense without a budget line, the
\* line items of a category carry the spending on the budget lines of that
\* category (plus, under "OOB", the spending without a budget line), and the
\* Amount Spent of all line items adds up to the amount_spent of all
\* aggregated expenses.
C27_SpendConserved ==
    report # << >> =>
      /\ Len(LineItems) = Len(df_budget) + Len(OffBudgetRows)
      /\ \A i \in ReportRows :
            LET c == report[i].Category
            IN  SumOver(Children(c), "AmountSpent")
                  = SpentInCategory(c) + ( IF c = "OOB" THEN SpentOffBudgetLines ELSE 0 )
      /\ SumOver(LineItems, "AmountSpent") = SumOver(df_expense, "amount_spent")

\* a report for a budget with a line that has spending and a line that has
\* none, and with two expenses that are on no budget line
C27_Witness ==
    /\ report # << >>
    /\ \E k \in 1..Len(df_budget) :
          SpentOn(df_budget[k].Category, df_budget[k].SubCategory) > 0
    /\ \E k \in 1..Len(df_budget) :
          SpentOn(df_budget[k].Category, df_budget[k].SubCategory) = 0
    /\ Len(OffBudgetRows) = 2

\* the Total of the "Out of Budget" tile
OutOfBudgetTile ==
    LET i == CHOOSE k \in 1..Len(rows_summary) :
                 rows_summary[k].StatusCategory = "Out of Budget"
    IN  rows_summary[i].Total

\* C28: the "Out of Budget" tile of the summary equals the Amount Spent of
\* the report's OOB TOTAL row, and it is 0 exactly when the report has no
\* row under "OOB".
C28_TileEqualsOobRollup ==
    report # << >> =>
      /\ \A t \in Rollups("OOB") : report[t].AmountSpent = OutOfBudgetTile
      /\ OutOfBudgetTile = 0 <=> Rollups("OOB") = { }

\* the same agreement on the budgets that have no line under the Category "OOB"
TileEqualsOobRollupOtherwise ==
    ( \A k \in 1..Len(df_budget) : df_budget[k].Category # "OOB" )
    => C28_TileEqualsOobRollup

(***************************************************************************)
(* utils/expense_parser.py: the cache key that rolls over at 6:15 AM.      *)
(*                                                                         *)
(* now is the wall clock of America/Jamaica in minutes since 00:00 of      *)
(* StartDate.  The zone has a fixed offset (no daylight saving time), so   *)
(* the wall clock never steps back.  A date is << year, month, day >>.     *)
(***************************************************************************)
MaxDays == 3

StartDate == << 2025, 12, 31 >>

DaysInMonth(year, month) ==
    IF month = 2
    THEN ( IF year % 4 = 0 /\ ( year % 100 # 0 \/ year % 400 = 0 ) THEN 29 ELSE 28 )
    ELSE IF month \in { 4, 6, 9, 11 } THEN 30 ELSE 31

\* date + timedelta(days=n), n >= -1
RECURSIVE date_plus_days(_, _)
date_plus_days(date, n) ==
    IF n = 0 THEN date
    ELSE IF n < 0
    THEN ( IF date[3] > 1 THEN << date[1], date[2], date[3] - 1 >>
           ELSE IF date[2] > 1
           THEN << date[1], date[2] - 1, DaysInMonth(date[1], date[2] - 1) >>
           ELSE << date[1] - 1, 12, 31 >> )
    ELSE date_plus_days(
           ( IF date[3] < DaysInMonth(date[1], date[2])
             THEN << date[1], date[2], date[3] + 1 >>
             ELSE IF date[2] < 12 THEN << date[1], date[2] + 1, 1 >>
             ELSE << date[1] + 1, 1, 1 >> ),
           n - 1)

\* date.isoformat(): the characters of YYYY-MM-DD, the digits as numbers
isoformat(date) ==
    << date[1] \div 1000, ( date[1] \div 100 ) % 10, ( date[1] \div 10 ) % 10,
       date[1] % 10, "-", date[2] \div 10, date[2] % 10, "-",
       date[3] \div 10, date[3] % 10 >>

\* a key that still belongs to the day before at 06:15 sharp
get_expense_cache_key_after(t) ==
    LET today == date_plus_days(StartDate, t \div 1440)
        rollover == 6 * 60 + 15
    IN  IF t % 1440 > rollover
        THEN isoformat(today)
        ELSE isoformat(date_plus_days(today, 0 - 1))

\* get_expense_cache_key() called at the instant t
get_expense_cache_key(t) ==
    LET today == date_plus_days(StartDate, t \div 1440)
        rollover == 6 * 60 + 15
    IN  IF t % 1440 >= rollover
        THEN isoformat(today)
        ELSE isoformat(date_plus_days(today, 0 - 1))

\* the instants the clock visits: around the rollover, noon and midnight of
\* each day
Instants ==
    { day * 1440 + minute :
        day \in 0..( MaxDays - 1 ), minute \in { 0, 374, 375, 376, 720, 1439 } }

InitClock ==
    /\ budget_state = OtherRows
    /\ saved_state =
          [ s \in Sessions |-> load_budget_state_monthly(budget_state, selected_budget) ]
    /\ pending_allocations = [ s \in Sessions |-> << >> ]
    /\ editor_version = [ s \in Sessions |-> 0 ]
    /\ pc = [ s \in Sessions |-> "idle" ]
    /\ final_df = [ s \in Sessions |-> NoFrame ]
    /\ outcome = [ s \in Sessions |-> "" ]
    /\ sql = [ s \in Sessions |-> << >> ]
    /\ df_budget = AllocBudget
    /\ df_expense = << >>
    /\ report = << >>
    /\ ViewIdle
    /\ workbook = NoLedger
    /\ budget_long = NotCalled
    /\ budget_wide = << >>
    /\ now = 0
    /\ cache_day_key = [ at |-> now, key |-> get_expense_cache_key(now) ]
    /\ active_budget = << >>
    /\ active_call = << >>
    /\ users = << >>
    /\ session_state = << >>
    /\ page = ""

\* time passes
Tick ==
    /\ \E t \in Instants : t > now /\ now' = t
    /\ UNCHANGED << appVars, viewVars, workbook, budget_long, budget_wide,
                    cache_day_key, active_budget, active_call, users,
                    session_state, page >>

\* a page run computes cache_day_key=get_expense_cache_key()
GetExpenseCacheKey ==
    /\ cache_day_key.at < now
    /\ cache_day_key' = [ at |-> now, key |-> get_expense_cache_key(now) ]
    /\ UNCHANGED << appVars, viewVars, workbook, budget_long, budget_wide,
                    now, active_budget, active_call, users, session_state, page >>

NextClock == Tick \/ GetExpenseCacheKey

SpecClock == InitClock /\ [][NextClock]_vars

\* the number of 06:15 rollovers up to the instant t
Window(t) == ( t + 1440 - ( 6 * 60 + 15 ) ) \div 1440

\* key a sorts before key b as a string
KeyBefore(a, b) ==
    \E i \in ( 1..10 ) \ { 5, 8 } :
        /\ \A j \in 1..( i - 1 ) : a[j] = b[j]
        /\ a[i] < b[i]

\* the date (year, month, day) a key spells
DateSpelled(key) ==
    << key[1] * 1000 + key[2] * 100 + key[3] * 10 + key[4],
       key[6] * 10 + key[7], key[9] * 10 + key[10] >>

\* C24: the cache key is the Jamaica date of the instant when its time is
\* 06:15 or later and the date of the day before otherwise; from one call to
\* a later one the key never goes backwards, stays equal when both instants
\* are in the same [06:15, next 06:15) window, and moves on by one day for
\* each 06:15 passed in between.
C24_KeyRollsOverAt0615 ==
    [][ cache_day_key' # cache_day_key =>
          LET old == cache_day_key
              new == cache_day_key'
              passed == Window(new.at) - Window(old.at)
          IN  /\ new.at >= old.at
              /\ DateSpelled(new.key)
                    = date_plus_days(StartDate, ( new.at \div 1440 )
                                       - ( IF new.at % 1440 >= 375 THEN 0 ELSE 1 ))
              /\ ~KeyBefore(new.key, old.key)
              /\ passed = 0 => new.key = old.key
              /\ passed > 0 => KeyBefore(old.key, new.key)
              /\ DateSpelled(new.key) = date_plus_days(DateSpelled(old.key), passed)
      ]_vars

\* the key has been computed at 06:14, at 06:15 and after a year's end
C24_Witness ==
    /\ cache_day_key.at = 1440 + 375
    /\ now = 2 * 1440 + 374
    /\ cache_day_key.key = isoformat(<< 2026, 1, 1 >>)

(***************************************************************************)
(* utils/db.py: the table active_budget (id AUTO_INCREMENT, file_name).    *)
(* The connection commits every statement (autocommit=True).               *)
(***************************************************************************)
MaxActiveRows == 3

FileNames == { selected_budget, OtherBudget, "capex.xlsx" }

\* the id an INSERT gives a new row: above every id the table has had
next_id(table) ==
    IF table = << >> THEN 1
    ELSE 1 + ( CHOOSE m \in { table[i].id : i \in 1..Len(table) } :
                 \A i \in 1..Len(table) : table[i].id <= m )

\* set_active_budget(file_name): the table after the call, what it raised and
\* what it returned.  The UPDATE of the one-row branch reads
\* "... updated_at = NOW(), where id = %s": the comma before "where" makes
\* the server reject the statement (error 1064), so execute raises
\* ProgrammingError and the row is left as it was.
set_active_budget(table, file_name) ==
    LET rows == SubSeq(table, 1, IF Len(table) < 2 THEN Len(table) ELSE 2)
        inserted == [ id |-> next_id(table), file_name |-> file_name ]
    IN  IF Len(rows) = 0
        THEN [ table |-> << inserted >>, raised |-> "", returned |-> TRUE ]
        ELSE IF Len(rows) = 1
        THEN [ table |-> table, raised |-> "ProgrammingError", returned |-> FALSE ]
        ELSE [ table |-> << inserted >>, raised |-> "", returned |-> TRUE ]

\* clear_active_budget()
clear_active_budget(table) == [ table |-> << >>, raised |-> "", returned |-> TRUE ]

\* get_active_budget(): what "select file_name FROM active_budget limit 1"
\* may give; without ORDER BY any row of the table can be the one fetched
get_active_budget(table) ==
    IF table = << >> THEN { "None" }
    ELSE { table[i].file_name : i \in 1..Len(table) }

ActiveTables ==
    { [ i \in 1..Len(names) |-> [ id |-> i, file_name |-> names[i] ] ] :
        names \in SeqsUpTo(FileNames, MaxActiveRows) }

InitActive ==
    /\ budget_state = OtherRows
    /\ saved_state =
          [ s \in Sessions |-> load_budget_state_monthly(budget_state, selected_budget) ]
    /\ pending_allocations = [ s \in Sessions |-> << >> ]
    /\ editor_version = [ s \in Sessions |-> 0 ]
    /\ pc = [ s \in Sessions |-> "idle" ]
    /\ final_df = [ s \in Sessions |-> NoFrame ]
    /\ outcome = [ s \in Sessions |-> "" ]
    /\ sql = [ s \in Sessions |-> << >> ]
    /\ df_budget = AllocBudget
    /\ df_expense = << >>
    /\ report = << >>
    /\ ViewIdle
    /\ workbook = NoLedger
    /\ budget_long = NotCalled
    /\ budget_wide = << >>
    /\ now = 0
    /\ cache_day_key = << >>
    /\ active_budget \in ActiveTables
    /\ active_call = [ op |-> "", file_name |-> "", raised |-> "", returned |-> "" ]
    /\ users = << >>
    /\ session_state = << >>
    /\ page = ""

\* "Set as Active Budget": set_active_budget(selected)
SetActiveBudget(file_name) ==
    /\ LET done == set_active_budget(active_budget, file_name)
       IN  /\ active_budget' = done.table
           /\ active_call' = [ op |-> "set_active_budget", file_name |-> file_name,
                               raised |-> done.raised, returned |-> done.returned ]
    /\ UNCHANGED << appVars, viewVars, workbook, budget_long, budget_wide, now,
                    cache_day_key, users, session_state, page >>

ClearActiveBudget ==
    /\ LET done == clear_active_budget(active_budget)
       IN  /\ active_budget' = done.table
           /\ active_call' = [ op |-> "clear_active_budget", file_name |-> "",
                               raised |-> done.raised, returned |-> done.returned ]
    /\ UNCHANGED << appVars, viewVars, workbook, budget_long, budget_wide, now,
                    cache_day_key, users, session_state, page >>

\* current_active = get_active_budget()
GetActiveBudget ==
    /\ \E name \in get_active_budget(active_budget) :
          active_call' = [ op |-> "get_active_budget", file_name |-> "",
                           raised |-> "", returned |-> name ]
    /\ UNCHANGED << appVars, viewVars, workbook, budget_long, budget_wide, now,
                    cache_day_key, active_budget, users, session_state, page >>

NextActive ==
    \/ \E file_name \in FileNames : SetActiveBudget(file_name)
    \/ ClearActiveBudget
    \/ GetActiveBudget

SpecActive == InitActive /\ [][NextActive]_vars

\* C25: after set_active_budget(f), whatever the table held before (no row,
\* one row, several rows), the call has completed, the table holds exactly
\* one row and get_active_budget returns f; after clear_active_budget,
\* get_active_budget returns "None".
C25_SetLeavesOneActiveRow ==
    [][ /\ \A f \in FileNames :
              SetActiveBudget(f) =>
                /\ active_call'.raised = ""
                /\ Len(active_budget') = 1
                /\ get_active_budget(active_budget') = { f }
        /\ ClearActiveBudget => get_active_budget(active_budget') = { "None" }
      ]_vars

\* the same for the calls made on a table that does not hold exactly one row
SetLeavesOneActiveRowOtherwise ==
    [][ /\ \A f \in FileNames :
              ( SetActiveBudget(f) /\ Len(active_budget) # 1 ) =>
                /\ active_call'.raised = ""
                /\ Len(active_budget') = 1
                /\ get_active_budget(active_budget') = { f }
        /\ ClearActiveBudget => get_active_budget(active_budget') = { "None" }
      ]_vars

\* set_active_budget was called for another file on a table of one row
C25_Witness ==
    /\ active_call.op = "set_active_budget"
    /\ active_call.raised = "ProgrammingError"
    /\ Len(active_budget) = 1
    /\ active_budget[1].file_name # active_call.file_name

(***************************************************************************)
(* utils/auth.py, main.py and the pages: login, first-login password       *)
(* reset, logout and the guard of the pages.  One browser session; every   *)
(* action is one interaction with the script runs it triggers.  The login  *)
(* cookie is written but never read (restore_session_from_cookie is        *)
(* commented out in auth_flow), so it is left out.                         *)
(***************************************************************************)
Emails == { "new@musson.com", "admin@musson.com" }

PasswordInputs == { "changeme1", "n3wsecret", "short" }

GuardedPages == { "pages/1_admin.py", "pages/3_user.py" }

\* base64.b64encode(bcrypt.hashpw(password.encode(), bcrypt.gensalt())).decode()
stored_format(password) == << "base64", << "bcrypt", password >> >>

\* bcrypt.checkpw(password.encode(), base64.b64decode(hashed_password))
checkpw(password, hashed_password) ==
    LET decoded_hash == hashed_password[2]
    IN  decoded_hash = << "bcrypt", password >>

\* get_user_by_email(email): fetchone() of the rows with that email, << >>
\* for None and << row >> for a row (the emails of the model are in lower
\* case, as LOWER(email) makes them)
get_user_by_email(table, email) ==
    LET found == SelectSeq(table, LAMBDA u : u.email = email)
    IN  IF found = << >> THEN << >> ELSE << found[1] >>

\* update_password(email, hashed_pw, first_login): both branches of the
\* function, the flag written being the argument's value
update_password(table, email, hashed_pw, first_login) ==
    [ i \in 1..Len(table) |->
        IF table[i].email = email
        THEN [ table[i] EXCEPT !.hashed_password = hashed_pw,
                               !.first_login = IF first_login THEN TRUE ELSE FALSE ]
        ELSE table[i] ]

\* init_auth_session's defaults, which are also what logout_user leaves
logout_user ==
    [ authenticated |-> FALSE, email |-> "", name |-> "", user_record |-> << >>,
      force_pw_change |-> FALSE ]

\* a run of main.py: what auth_flow renders, or the page main.py switches to
\* for the user's role once auth_flow returns True
main(state) ==
    IF ~state.authenticated /\ ~state.force_pw_change THEN "Login"
    ELSE IF state.force_pw_change THEN "Reset Password"
    ELSE IF state.user_record.role = "admin" THEN "pages/1_admin.py"
    ELSE IF state.user_record.role = "manager" THEN "pages/2_Dashboard.py"
    ELSE "main.py"

\* require_login(): TRUE when the page goes on to render
require_login(state) == state.authenticated

InitAuth ==
    /\ budget_state = OtherRows
    /\ saved_state =
          [ s \in Sessions |-> load_budget_state_monthly(budget_state, selected_budget) ]
    /\ pending_allocations = [ s \in Sessions |-> << >> ]
    /\ editor_version = [ s \in Sessions |-> 0 ]
    /\ pc = [ s \in Sessions |-> "idle" ]
    /\ final_df = [ s \in Sessions |-> NoFrame ]
    /\ outcome = [ s \in Sessions |-> "" ]
    /\ sql = [ s \in Sessions |-> << >> ]
    /\ df_budget = AllocBudget
    /\ df_expense = << >>
    /\ report = << >>
    /\ ViewIdle
    /\ workbook = NoLedger
    /\ budget_long = NotCalled
    /\ budget_wide = << >>
    /\ now = 0
    /\ cache_day_key = << >>
    /\ active_budget = << >>
    /\ active_call = << >>
    /\ users = << [ email |-> "new@musson.com", name |-> "New", role |-> "user",
                    hashed_password |-> stored_format("changeme1"),
                    first_login |-> TRUE ],
                  [ email |-> "admin@musson.com", name |-> "Admin", role |-> "admin",
                    hashed_password |-> stored_format("changeme1"),
                    first_login |-> FALSE ] >>
    /\ session_state = logout_user
    /\ page = main(session_state)

\* render_login_screen: the login form submitted, and the rerun after it
Login(email, password) ==
    /\ ~session_state.authenticated /\ ~session_state.force_pw_change
    /\ LET user == get_user_by_email(users, email)
       IN  IF user = << >>
           THEN session_state' = session_state
           ELSE IF ~checkpw(password, user[1].hashed_password)
           THEN session_state' = session_state
           ELSE session_state' =
                  [ authenticated |-> TRUE, email |-> email, name |-> user[1].name,
                    user_record |-> user[1],
                    force_pw_change |-> IF user[1].first_login THEN TRUE ELSE FALSE ]
    /\ page' = main(session_state')
    /\ UNCHANGED << appVars, viewVars, workbook, budget_long, budget_wide, now,
                    cache_day_key, active_budget, active_call, users >>

\* render_first_login_reset: the reset form submitted, and the rerun after it
ResetPassword(pw1, pw2) ==
    /\ session_state.force_pw_change
    /\ IF Len(Chars(pw1)) < 8 \/ pw1 # pw2
       THEN UNCHANGED << users, session_state >>
       ELSE LET encoded == stored_format(pw1)
            IN  /\ users' = update_password(users, session_state.email, encoded, TRUE)
                /\ session_state' =
                      [ session_state EXCEPT
                          !.user_record =
                              [ @ EXCEPT !.first_login = FALSE,
                                         !.hashed_password = encoded ],
                          !.force_pw_change = FALSE ]
    /\ page' = main(session_state')
    /\ UNCHANGED << appVars, viewVars, workbook, budget_long, budget_wide, now,
                    cache_day_key, active_budget, active_call >>

\* the Logout button of auth_flow and of the pages
Logout ==
    /\ page \in GuardedPages \cup { "main.py" }
    /\ session_state' = logout_user
    /\ page' = main(session_state')
    /\ UNCHANGED << appVars, viewVars, workbook, budget_long, budget_wide, now,
                    cache_day_key, active_budget, active_call, users >>

\* the browser asks for a page that starts with require_login(); a session
\* that is turned away is switched to main.py
OpenPage(target) ==
    /\ page' = IF require_login(session_state) THEN target ELSE main(session_state)
    /\ UNCHANGED << appVars, viewVars, workbook, budget_long, budget_wide, now,
                    cache_day_key, active_budget, active_call, users, session_state >>

\* pages/2_profile.py, Change Password
ChangePassword(current_pwd, new_pwd, confirm_pwd) ==
    /\ session_state.authenticated /\ ~session_state.force_pw_change
    /\ LET user == get_user_by_email(users, session_state.email)
       IN  IF ~checkpw(current_pwd, user[1].hashed_password) \/ new_pwd # confirm_pwd
           THEN /\ users' = users
                /\ page' = "pages/2_profile.py"
           ELSE /\ users' = update_password(users, session_state.email,
                                            stored_format(new_pwd), FALSE)
                /\ page' = IF session_state.user_record.role = "admin"
                           THEN "pages/1_admin.py" ELSE "pages/2_profile.py"
    /\ UNCHANGED << appVars, viewVars, workbook, budget_long, budget_wide, now,
                    cache_day_key, active_budget, active_call, session_state >>

NextAuth ==
    \/ \E email \in Emails, password \in PasswordInputs : Login(email, password)
    \/ \E pw1, pw2 \in PasswordInputs : ResetPassword(pw1, pw2)
    \/ Logout
    \/ \E target \in GuardedPages : OpenPage(target)
    \/ \E current_pwd, new_pwd \in PasswordInputs :
          ChangePassword(current_pwd, new_pwd, new_pwd)

SpecAuth == InitAuth /\ [][NextAuth]_vars

\* the row of the users table for the session's user
StoredUser == get_user_by_email(users, session_state.email)[1]

\* C29: when a first-login password reset succeeds, the user's stored
\* first_login flag is false afterwards, and a login that finds the stored
\* flag false does not force a password reset.
C29_ResetClearsFirstLogin ==
    [][ /\ ( /\ session_state.force_pw_change /\ ~session_state'.force_pw_change
              /\ session_state'.authenticated )
            => LET user == get_user_by_email(users', session_state.email)[1]
               IN  /\ user.hashed_password = session_state'.user_record.hashed_password
                   /\ user.first_login = FALSE
        /\ \A email \in Emails, password \in PasswordInputs :
              ( /\ Login(email, password) /\ session_state'.authenticated
                /\ ~get_user_by_email(users, email)[1].first_login )
              => ~session_state'.force_pw_change
      ]_vars

\* the user has reset the password at first login, logged out and logged in
\* with the new password, and is shown the reset form again
C29_Witness ==
    /\ session_state.authenticated /\ session_state.force_pw_change
    /\ page = "Reset Password"
    /\ session_state.user_record.hashed_password = stored_format("n3wsecret")
    /\ StoredUser.first_login

\* C30: while force_pw_change is true no page guarded by require_login is
\* rendered.
C30_NoGuardedPageWhilePending ==
    session_state.force_pw_change => page \notin GuardedPages

\* a guarded page is rendered for a first-login user who has not reset the
\* password
C30_Witness ==
    /\ session_state.force_pw_change
    /\ StoredUser.first_login
    /\ StoredUser.hashed_password = stored_format("changeme1")
    /\ page = "pages/3_user.py"

(***************************************************************************)
(* utils/budget_parser.py and utils/budget_adapter.py: the budget sheet    *)
(* melted to long form and pivoted back to the wide form of the pages.     *)
(*                                                                         *)
(* A sheet row is [Category, Subcategory, Total, months]: two text cells,  *)
(* a cell for Total and one cell per month.  A display text or a column    *)
(* label computed by the code is a sequence of characters.                 *)
(***************************************************************************)
MaxSheetRows == 2

MONTH_COLUMNS ==
    << "January", "February", "March", "April", "May", "June",
       "July", "August", "September", "October", "November", "December" >>

\* pd.to_numeric(cell, errors="coerce") followed by fillna(0)
to_numeric(cell) == IF cell.kind = "num" THEN cell.val ELSE 0

\* str.title() of a word or of words
title(chars) ==
    [ i \in 1..Len(chars) |->
        IF i = 1 \/ ( LowerChar(chars[i - 1]) = chars[i - 1]
                      /\ UpperChar(chars[i - 1]) = chars[i - 1] )
        THEN UpperChar(chars[i]) ELSE LowerChar(chars[i]) ]

\* df[column].astype(str).str.strip() of a text cell
display_of(value) == strip(Chars(value))

\* _load_budget_from_drive on the sheet read_excel gives: the ValueError of
\* the column check, or the long frame.  melt lists the rows of the sheet
\* once per month, month after month.
load_budget_from_drive(sheet) ==
    LET required == { "Category", "Subcategory", "Total" } \cup Range(MONTH_COLUMNS)
        missing == required \ sheet.columns
        n == Len(sheet.rows)
        long(k) ==
            LET r == sheet.rows[( ( k - 1 ) % n ) + 1]
                month == MONTH_COLUMNS[( ( k - 1 ) \div n ) + 1]
            IN  [ category_key |-> normalize_key(display_of(r.Category)),
                  category_display |-> display_of(r.Category),
                  subcategory_key |-> normalize_key(display_of(r.Subcategory)),
                  subcategory_display |-> display_of(r.Subcategory),
                  month |-> lower(Chars(month)),
                  budget_amount |-> to_numeric(r.months[month]),
                  annual_total |-> to_numeric(r.Total) ]
    IN  IF missing # { }
        THEN [ called |-> TRUE, raised |-> "missing_columns", missing |-> missing,
               rows |-> << >> ]
        ELSE [ called |-> TRUE, raised |-> "", missing |-> { },
               rows |-> [ k \in 1..( n * Len(MONTH_COLUMNS) ) |-> long(k) ] ]

\* adapt_budget_long_to_classification: pivot_table of budget_amount on
\* (category_display, subcategory_display) by Month with aggfunc="sum", the
\* months the pivot lacks added as 0, Total the first annual_total of each
\* group, the columns renamed and ordered
adapt_budget_long_to_classification(df_long) ==
    LET line(r) == << r.category_display, r.subcategory_display >>
        index == { line(df_long[k]) : k \in 1..Len(df_long) }
        Before(p, q) == TextLess(p[1], q[1]) \/ ( p[1] = q[1] /\ TextLess(p[2], q[2]) )
        sorted == [ i \in 1..Cardinality(index) |->
                      CHOOSE p \in index :
                         Cardinality({ q \in index : Before(q, p) }) = i - 1 ]
        of(p) == SelectSeq(df_long, LAMBDA r : line(r) = p)
        Month(r) == title(r.month)
        cell(p, m) ==
            LET values == SelectSeq(of(p), LAMBDA r : Month(r) = Chars(m))
            IN  IF \A k \in 1..Len(df_long) : Month(df_long[k]) # Chars(m) THEN 0
                ELSE IF values = << >> THEN NaN
                ELSE SumOver(values, "budget_amount")
    IN  [ i \in 1..Len(sorted) |->
            [ Category |-> sorted[i][1],
              SubCategory |-> sorted[i][2],
              months |-> [ m \in Range(MONTH_COLUMNS) |-> cell(sorted[i], m) ],
              Total |-> of(sorted[i])[1].annual_total ] ]

\* the cells a sheet may hold for Total and for January; the other months
\* hold 0
SheetRows ==
    { [ Category |-> "Admin", Subcategory |-> sub, Total |-> total,
        months |-> [ m \in Range(MONTH_COLUMNS) |->
                       IF m = "January" THEN january ELSE NumCell(0) ] ] :
        sub \in { "Rent", "Rent ", "Supplies" },
        total \in { NumCell(10), TextCell },
        january \in { NumCell(1), NumCell(2), NullCell } }

SheetColumns ==
    LET full == { "Category", "Subcategory", "Total" } \cup Range(MONTH_COLUMNS)
    IN  { full,
          ( full \ { "Subcategory" } ) \cup { "Sub-Category" },
          full \cup { "Notes" },
          full \ { "Total", "March" },
          full \ { "Subcategory" } }

WorkbookInputs ==
    { [ columns |-> columns, rows |-> rows ] :
        columns \in SheetColumns,
        rows \in SeqsUpTo(SheetRows, MaxSheetRows) \ { << >> } }

InitBudget ==
    /\ budget_state = OtherRows
    /\ saved_state =
          [ s \in Sessions |-> load_budget_state_monthly(budget_state, selected_budget) ]
    /\ pending_allocations = [ s \in Sessions |-> << >> ]
    /\ editor_version = [ s \in Sessions |-> 0 ]
    /\ pc = [ s \in Sessions |-> "idle" ]
    /\ final_df = [ s \in Sessions |-> NoFrame ]
    /\ outcome = [ s \in Sessions |-> "" ]
    /\ sql = [ s \in Sessions |-> << >> ]
    /\ df_budget = AllocBudget
    /\ df_expense = << >>
    /\ report = << >>
    /\ ViewIdle
    /\ workbook \in WorkbookInputs
    /\ budget_long = [ called |-> FALSE, raised |-> "", missing |-> { }, rows |-> << >> ]
    /\ budget_wide = << >>
    /\ now = 0
    /\ cache_day_key = << >>
    /\ active_budget = << >>
    /\ active_call = << >>
    /\ users = << >>
    /\ session_state = << >>
    /\ page = ""

\* the Dashboard branch of the pages: budget_df_long = load_active_budget(),
\* budget_df = adapt_budget_long_to_classification(budget_df_long)
LoadActiveBudget ==
    /\ ~budget_long.called
    /\ budget_long' = load_budget_from_drive(workbook)
    /\ budget_wide' = IF budget_long'.raised # "" THEN << >>
                      ELSE adapt_budget_long_to_classification(budget_long'.rows)
    /\ UNCHANGED << appVars, viewVars, workbook, now, cache_day_key, active_budget,
                    active_call, users, session_state, page >>

NextBudget == LoadActiveBudget

SpecBudget == InitBudget /\ [][NextBudget]_vars

\* the sheet has every column the loader asks for
SheetIsValid ==
    ( { "Category", "Subcategory", "Total" } \cup Range(MONTH_COLUMNS) ) \subseteq workbook.columns

\* the rows of the sheet on the line (category, subcategory) as written
SheetLine(category, subcategory) ==
    SelectSeq(workbook.rows,
              LAMBDA r : Chars(r.Category) = category /\ Chars(r.Subcategory) = subcategory)

\* C21: for a valid sheet, the wide table made from the loader's long form
\* has the sheet's set of (Category, Sub-Category) lines, and every row of
\* the sheet is found in it with its Total and its month values after
\* numeric coercion, also when two rows of the sheet are on the same line.
C21_ReshapeRoundTrip ==
    ( budget_long.called /\ SheetIsValid ) =>
      /\ { << budget_wide[i].Category, budget_wide[i].SubCategory >> :
             i \in 1..Len(budget_wide) }
           = { << Chars(workbook.rows[k].Category), Chars(workbook.rows[k].Subcategory) >> :
                 k \in 1..Len(workbook.rows) }
      /\ \A k \in 1..Len(workbook.rows) :
            LET r == workbook.rows[k]
            IN  \E i \in 1..Len(budget_wide) :
                   /\ budget_wide[i].Category = Chars(r.Category)
                   /\ budget_wide[i].SubCategory = Chars(r.Subcategory)
                   /\ budget_wide[i].Total = to_numeric(r.Total)
                   /\ \A m \in Range(MONTH_COLUMNS) :
                         budget_wide[i].months[m] = to_numeric(r.months[m])

\* the round trip for the sheets whose rows are on different lines once the
\* texts are stripped: the lines are the stripped texts, Total and months
\* are the coerced cells
ReshapeRoundTripOfDistinctLines ==
    ( /\ budget_long.called /\ SheetIsValid
      /\ \A j, k \in 1..Len(workbook.rows) :
            ( /\ display_of(workbook.rows[j].Category) = display_of(workbook.rows[k].Category)
              /\ display_of(workbook.rows[j].Subcategory)
                   = display_of(workbook.rows[k].Subcategory) )
            => j = k )
    => /\ Len(budget_wide) = Len(workbook.rows)
       /\ \A k \in 1..Len(workbook.rows) :
             LET r == workbook.rows[k]
             IN  \E i \in 1..Len(budget_wide) :
                    /\ budget_wide[i].Category = display_of(r.Category)
                    /\ budget_wide[i].SubCategory = display_of(r.Subcategory)
                    /\ budget_wide[i].Total = to_numeric(r.Total)
                    /\ \A m \in Range(MONTH_COLUMNS) :
                          budget_wide[i].months[m] = to_numeric(r.months[m])

\* a valid sheet with two rows on the line Admin / Rent whose Totals and
\* January cells differ has been loaded and adapted
C21_Witness ==
    /\ budget_long.called /\ SheetIsValid
    /\ Len(SheetLine(Chars("Admin"), Chars("Rent"))) = 2
    /\ LET rows == SheetLine(Chars("Admin"), Chars("Rent"))
       IN  /\ to_numeric(rows[1].Total) # to_numeric(rows[2].Total)
           /\ to_numeric(rows[1].months["January"]) = 1
           /\ to_numeric(rows[2].months["January"]) = 2
    /\ Len(budget_wide) = 1

\* C22: loading a budget sheet raises the missing-columns error, naming the
\* missing columns, exactly when Category, the sub-category column, Total or
\* one of the twelve months is absent, the sub-category column being the one
\* named "Subcategory" or "Sub-Category"; otherwise the load succeeds.
C22_MissingColumnsRaise ==
    budget_long.called =>
      LET needed == { "Category", "Total" } \cup Range(MONTH_COLUMNS)
          absent == ( needed \ workbook.columns )
                    \cup ( IF { "Subcategory", "Sub-Category" } \cap workbook.columns = { }
                           THEN { "Subcategory" } ELSE { } )
      IN  IF absent = { }
          THEN budget_long.raised = "" /\ budget_long.rows # << >>
          ELSE budget_long.raised = "missing_columns" /\ budget_long.missing = absent

\* a sheet whose sub-category column is named "Sub-Category" has been loaded
C22_Witness ==
    /\ budget_long.called
    /\ "Sub-Category" \in workbook.columns /\ "Subcategory" \notin workbook.columns
    /\ ( { "Category", "Total" } \cup Range(MONTH_COLUMNS) ) \subseteq workbook.columns

====
